---- MODULE Spec2Model ----
(***************************************************************************)
(* Model of the NewsAI frontend (dranoto/fathom): the State Store          *)
(* (frontend/js/state.js), the Orchestrator (frontend/script.js) and the   *)
(* parts of the Feed Handler and UI Renderer that change the filter,       *)
(* pagination, polling and display state.                                  *)
(*                                                                         *)
(* JavaScript runs the handlers on one thread: a handler runs without      *)
(* interruption up to its next await, and the continuation after an await  *)
(* is a later step.  Every action below is one such uninterrupted run.     *)
(***************************************************************************)
EXTENDS Integers, Sequences, FiniteSets, TLC

(***************************************************************************)
(* Bounds of the model.                                                    *)
(***************************************************************************)
MaxInflight == 2      \* article requests that may be unresolved at once
MaxPages == 2         \* largest total_pages the backend reports
MaxTime == 2          \* article instants are 1..MaxTime
MaxBatch == 1         \* largest number of articles in one response
MaxShown == 3         \* entries the results area may hold
MaxSaves == 1         \* PUT /api/config requests that may be unresolved at once

FeedIds == {1, 2}
TagIds == {1, 2}
TotalArticleCounts == {0, 13}

(***************************************************************************)
(* JavaScript values.  null, numbers, strings and timestamps are records   *)
(* so that any two values can be compared.                                 *)
(***************************************************************************)
Null == [null |-> TRUE]
NaN == [nan |-> TRUE]
Num(n) == [num |-> n]
Str(s) == [chars |-> s]

IsNum(v) == DOMAIN v = {"num"}
IsStr(v) == DOMAIN v = {"chars"}

\* String.prototype.trim on a sequence of characters.
RECURSIVE TrimLeft(_)
TrimLeft(s) == IF s # <<>> /\ Head(s) = " " THEN TrimLeft(Tail(s)) ELSE s

RECURSIVE TrimRight(_)
TrimRight(s) ==
    IF s # <<>> /\ s[Len(s)] = " " THEN TrimRight(SubSeq(s, 1, Len(s) - 1)) ELSE s

Trim(s) == TrimRight(TrimLeft(s))

\* JavaScript truthiness of the values used here.
Truthy(v) ==
    CASE v = Null -> FALSE
      [] v = NaN -> FALSE
      [] IsStr(v) -> v.chars # <<>>
      [] IsNum(v) -> v.num # 0
      [] OTHER -> TRUE

\* a || b
OrElse(a, b) == IF Truthy(a) THEN a ELSE b

\* parseInt: a number is truncated (the model has integers only), a string
\* of digits is read, anything else is NaN.
Digits == <<"0", "1", "2", "3", "4", "5", "6", "7", "8", "9">>
DigitValue(c) == (CHOOSE i \in 1..10 : Digits[i] = c) - 1
IsDigit(c) == \E i \in 1..10 : Digits[i] = c

RECURSIVE ParseDigits(_, _, _)
ParseDigits(s, acc, seen) ==
    IF s # <<>> /\ IsDigit(Head(s))
    THEN ParseDigits(Tail(s), 10 * acc + DigitValue(Head(s)), TRUE)
    ELSE IF seen THEN Num(acc) ELSE NaN

ParseInt(v) ==
    CASE IsNum(v) -> v
      [] IsStr(v) ->
            LET t == TrimLeft(v.chars)
            IN  IF t # <<>> /\ Head(t) = "-"
                THEN LET r == ParseDigits(Tail(t), 0, FALSE)
                     IN  IF r = NaN THEN NaN ELSE Num(0 - r.num)
                ELSE ParseDigits(t, 0, FALSE)
      [] OTHER -> NaN

(***************************************************************************)
(* Timestamps.  An ISO-8601 string names an instant in one of several      *)
(* spellings: the backend's own and the one Date.toISOString produces.     *)
(***************************************************************************)
Timestamp(t, fmt) == [t |-> t, fmt |-> fmt]
ServerTimestamps == {Timestamp(t, "server") : t \in 1..MaxTime}

\* new Date(string): the instant the string names.
DateOf(ts) == ts.t
\* Date.prototype.toISOString
ToISOString(d) == Timestamp(d, "iso")

\* An article as far as the orchestrator reads it: created_at or nothing.
CreatedAtValues == ServerTimestamps \cup {Null}

RECURSIVE SeqsUpTo(_, _)
SeqsUpTo(S, n) ==
    IF n = 0 THEN {<<>>}
    ELSE LET shorter == SeqsUpTo(S, n - 1)
         IN  shorter \cup {Append(q, x) : q \in {r \in shorter : Len(r) = n - 1}, x \in S}

ArticleBatches == SeqsUpTo(CreatedAtValues, MaxBatch)

\* What the user may have typed in the keyword box when clicking Search.
KeywordInputs == {<<>>, <<" ">>, <<" ", "a">>, <<"b">>}

TagName(id) == IF id = 1 THEN "t1" ELSE "tn"
TagObj(id) == [id |-> id, name |-> TagName(id)]

Last(s) == s[Len(s)]
SeqToSet(s) == {s[i] : i \in 1..Len(s)}
RemoveAt(s, i) == SubSeq(s, 1, i - 1) \o SubSeq(s, i + 1, Len(s))


(***************************************************************************)
(* The state: the State Store's fields, the DOM regions the handlers       *)
(* write, and the requests that are awaiting their response.               *)
(***************************************************************************)
VARIABLES
    dbFeedSources,                    \* state.js: ids of the feeds, in order
    articlesPerPage,                  \* state.js
    currentPage,                      \* state.js
    totalPages,                       \* state.js
    totalArticlesAvailable,           \* state.js
    isLoadingMoreArticles,            \* state.js
    lastKnownLatestArticleTimestamp,  \* state.js: Null or a timestamp
    activeFeedFilterIds,              \* state.js: array of feed ids
    activeTagFilterIds,               \* state.js: array of {id, name}
    currentKeywordSearch,             \* state.js: Null or a string
    feedButtons,                      \* DOM: feed ids that have a filter button
    activeFeedButtons,                \* DOM: the filter buttons that carry the class active
    resultsContainer,                 \* DOM: what the results area shows
    inflight,                         \* calls of fetchAndDisplaySummaries at their await
    sent,                             \* the body of the last article request sent
    ev,                               \* history: the handler that ran last
    clamped,                          \* history: a fetch failed, no answer raised the total since
    minimumWordCount,                 \* state.js
    globalRssFetchInterval,           \* state.js
    defaultPrompts,                   \* state.js: default summary, chat and tag prompt
    currentPrompts,                   \* state.js: current summary, chat and tag prompt
    defaultModels,                    \* state.js: default summary, chat and tag model
    currentModels,                    \* state.js: current summary, chat and tag model
    configInflight,                   \* bodies of PUT /api/config awaiting their answer
    initialized,                      \* the initial configuration has arrived
    currentArticleForChat,            \* state.js: Null or an article id
    currentChatHistory,               \* state.js: array of {role, content}
    chatModalHistory,                 \* DOM: what the chat modal's history area shows
    chatInflight,                     \* chat calls at their await
    chatSent,                         \* the body of the last chat request sent
    chatInputsDisabled,               \* DOM: question input and ask button are disabled
    filtersRecorded                   \* whether a request's frame keeps the filter it asked for

storeVars == <<dbFeedSources, articlesPerPage, currentPage, totalPages,
               totalArticlesAvailable, isLoadingMoreArticles,
               lastKnownLatestArticleTimestamp, activeFeedFilterIds,
               activeTagFilterIds, currentKeywordSearch>>
domVars == <<feedButtons, activeFeedButtons, resultsContainer>>
netVars == <<inflight, sent, filtersRecorded>>
configVars == <<minimumWordCount, globalRssFetchInterval, defaultPrompts, currentPrompts,
                defaultModels, currentModels,
                configInflight, initialized>>
chatVars == <<currentArticleForChat, currentChatHistory, chatModalHistory, chatInflight,
              chatSent, chatInputsDisabled>>
vars == <<storeVars, domVars, netVars, ev, clamped, configVars, chatVars>>

(***************************************************************************)
(* State Store setters (frontend/js/state.js), as functions from the old   *)
(* value and the argument to the new value.                                *)
(***************************************************************************)
\* Variant: the lower limit is off by one, so page 1 is refused.
setCurrentPage_RefusesOne(old, page) ==
    LET numPage == ParseInt(page)
    IN  IF numPage # NaN /\ numPage.num > 1 THEN numPage.num ELSE old

setCurrentPage(old, page) ==
    LET numPage == ParseInt(page)
    IN  IF numPage # NaN /\ numPage.num > 0 THEN numPage.num ELSE old

setTotalPages(old, pages) ==
    LET numPages == ParseInt(pages)
    IN  IF numPages # NaN /\ numPages.num >= 0 THEN numPages.num ELSE old

setTotalArticlesAvailable(old, count) ==
    LET numCount == ParseInt(count)
    IN  IF numCount # NaN /\ numCount.num >= 0 THEN numCount.num ELSE old

\* Variant: the flag, once set, is never cleared.
setIsLoadingMoreArticles_Sticky(isLoading) == isLoading \/ isLoadingMoreArticles

setIsLoadingMoreArticles(isLoading) == isLoading

\* Variant: the ids are added to the filter instead of replacing it.
setActiveFeedFilterIds_Adds(ids) == activeFeedFilterIds \o ids

\* ids.map(id => parseInt(id)).filter(id => !isNaN(id))
setActiveFeedFilterIds(ids) ==
    LET parsed == [i \in 1..Len(ids) |-> ParseInt(Num(ids[i]))]
        kept == SelectSeq(parsed, LAMBDA v : v # NaN)
    IN  [i \in 1..Len(kept) |-> kept[i].num]

\* Variant: an empty array is ignored instead of clearing the filter.
setActiveTagFilterIds_IgnoresEmpty(tagObjects) ==
    IF tagObjects = <<>> THEN activeTagFilterIds
    ELSE SelectSeq(tagObjects, LAMBDA t : DOMAIN t = {"id", "name"})

\* tagObjects.filter(t => t && typeof t.id === 'number' && typeof t.name === 'string')
setActiveTagFilterIds(tagObjects) ==
    SelectSeq(tagObjects, LAMBDA t : DOMAIN t = {"id", "name"})

addActiveTagFilter(old, tagObj) ==
    IF ~(\E i \in 1..Len(old) : old[i].id = tagObj.id) THEN Append(old, tagObj) ELSE old

removeActiveTagFilter(old, tagId) ==
    LET numTagId == ParseInt(tagId)
    IN  IF numTagId # NaN THEN SelectSeq(old, LAMBDA t : t.id # numTagId.num) ELSE old

\* Variant: a non-string is ignored instead of clearing the keyword.
setCurrentKeywordSearch_IgnoresNull(keyword) ==
    IF IsStr(keyword) THEN Str(Trim(keyword.chars)) ELSE currentKeywordSearch

setCurrentKeywordSearch(keyword) ==
    IF IsStr(keyword) THEN Str(Trim(keyword.chars)) ELSE Null

IsTimestamp(v) == DOMAIN v = {"t", "fmt"}

\* A non-empty string is stored, null clears, anything else is ignored.
setLastKnownLatestArticleTimestamp(old, timestamp) ==
    IF IsTimestamp(timestamp) THEN timestamp
    ELSE IF timestamp = Null THEN Null ELSE old

setDbFeedSources(sources) == sources

\* Variant: zero articles per page is accepted.
setArticlesPerPage_AcceptsZero(old, count) ==
    LET numCount == ParseInt(count)
    IN  IF numCount # NaN /\ numCount.num >= 0 THEN numCount.num ELSE old

setArticlesPerPage(old, count) ==
    LET numCount == ParseInt(count)
    IN  IF numCount # NaN /\ numCount.num > 0 THEN numCount.num ELSE old

setMinimumWordCount(old, count) ==
    LET numCount == ParseInt(count)
    IN  IF numCount # NaN /\ numCount.num >= 0 THEN numCount.num ELSE old

setGlobalRssFetchInterval(old, interval) ==
    LET numInterval == ParseInt(interval)
    IN  IF numInterval # NaN /\ numInterval.num >= 5 THEN numInterval.num ELSE old

\* The three prompts are kept together: summary, chat, tag.
setDefaultPrompts(old, summary, chat, tag) ==
    [summary |-> IF Truthy(summary) THEN summary ELSE old.summary,
     chat |-> IF Truthy(chat) THEN chat ELSE old.chat,
     tag |-> IF Truthy(tag) THEN tag ELSE old.tag]

setCurrentPrompts(defaults, summary, chat, tag) ==
    [summary |-> OrElse(summary, defaults.summary),
     chat |-> OrElse(chat, defaults.chat),
     tag |-> OrElse(tag, defaults.tag)]

\* state.js 29-31: the prompts the module starts with.  A prompt is a string
\* of words; the placeholders {text}, {article_text} and {question} are words.
BuiltInPrompts ==
    [summary |-> Str(<<"S", "{text}">>),
     chat |-> Str(<<"C", "{article_text}", "{question}">>),
     tag |-> Str(<<"T", "{text}">>)]

\* state.js 40-45: the model names the module starts with.
BuiltInModels == [summary |-> Str(<<>>), chat |-> Str(<<>>), tag |-> Str(<<>>)]

\* state.js 127-131 and 133-137.
setDefaultModels(old, summary, chat, tag) ==
    [summary |-> IF Truthy(summary) THEN summary ELSE old.summary,
     chat |-> IF Truthy(chat) THEN chat ELSE old.chat,
     tag |-> IF Truthy(tag) THEN tag ELSE old.tag]

setCurrentModels(defaults, summary, chat, tag) ==
    [summary |-> OrElse(summary, defaults.summary),
     chat |-> OrElse(chat, defaults.chat),
     tag |-> OrElse(tag, defaults.tag)]

\* String.prototype.includes for a placeholder.
Includes(v, word) == \E k \in 1..Len(v.chars) : v.chars[k] = word

(***************************************************************************)
(* Init: the module-level initial values of state.js, with the feed list   *)
(* of the initial configuration loaded and its filter buttons rendered.    *)
(***************************************************************************)
InitState ==
    /\ dbFeedSources = <<1, 2>>
    /\ articlesPerPage = 6
    /\ currentPage = 1
    /\ totalPages = 1
    /\ totalArticlesAvailable = 0
    /\ isLoadingMoreArticles = FALSE
    /\ lastKnownLatestArticleTimestamp = Null
    /\ activeFeedFilterIds = <<>>
    /\ activeTagFilterIds = <<>>
    /\ currentKeywordSearch = Null
    /\ feedButtons = FeedIds
    /\ activeFeedButtons = [allFeeds |-> TRUE, feeds |-> {}]
    /\ resultsContainer = <<>>
    /\ inflight = <<>>
    /\ sent = Null
    /\ ev = "init"
    /\ clamped = FALSE
    /\ minimumWordCount = 100
    /\ globalRssFetchInterval = 60
    /\ defaultPrompts = BuiltInPrompts
    /\ currentPrompts = BuiltInPrompts
    /\ defaultModels = BuiltInModels
    /\ currentModels = BuiltInModels
    /\ configInflight = <<>>
    /\ initialized = "ready"
    /\ currentArticleForChat = Null
    /\ currentChatHistory = <<>>
    /\ chatModalHistory = <<>>
    /\ chatInflight = <<>>
    /\ chatSent = Null
    /\ chatInputsDisabled = FALSE

Init == InitState /\ filtersRecorded = FALSE

(***************************************************************************)
(* fetchAndDisplaySummaries, script.js 25-131.  The part before the await  *)
(* runs inside the calling handler: FetchCall gives the page it leaves in  *)
(* currentPage and the request it sends, from the state the caller has     *)
(* just written (cp, feeds, tags).  cont is what the caller does when the  *)
(* call returns: for pollForNewArticles, the timestamp it then applies.    *)
(* A suspended call keeps its locals page and isPollRefresh; the payload   *)
(* has left for the backend.                                               *)
(***************************************************************************)
Arr(s) == [items |-> s]

\* Variant: the current prompt is always sent.
PromptToSend_Always(current, default) == current

\* script.js 62-63, chatHandler.js 171: a prompt goes out only when it is not
\* the default.
PromptToSend(current, default) == IF current # default THEN current ELSE Null

\* Variant: the request never carries the keyword.
Payload_DropsKeyword(cp, feeds, tags, keyword) ==
    [page |-> cp,
     page_size |-> articlesPerPage,
     feed_source_ids |-> IF Len(feeds) > 0 THEN Arr(feeds) ELSE Null,
     tag_ids |-> IF Len(tags) > 0 THEN Arr([i \in 1..Len(tags) |-> tags[i].id]) ELSE Null,
     keyword |-> Null,
     summary_prompt |-> PromptToSend(currentPrompts.summary, defaultPrompts.summary),
     tag_generation_prompt |-> PromptToSend(currentPrompts.tag, defaultPrompts.tag)]

Payload(cp, feeds, tags, keyword) ==
    [page |-> cp,
     page_size |-> articlesPerPage,
     feed_source_ids |-> IF Len(feeds) > 0 THEN Arr(feeds) ELSE Null,
     tag_ids |-> IF Len(tags) > 0 THEN Arr([i \in 1..Len(tags) |-> tags[i].id]) ELSE Null,
     keyword |-> OrElse(keyword, Null),
     summary_prompt |-> PromptToSend(currentPrompts.summary, defaultPrompts.summary),
     tag_generation_prompt |-> PromptToSend(currentPrompts.tag, defaultPrompts.tag)]

\* The filter a request asks for; the articles of its response are articles
\* of that filter.  The frames keep it only in the specification that compares
\* the displayed batches with the active filter.
FilterOf(payload) ==
    IF filtersRecorded
    THEN [feed_source_ids |-> payload.feed_source_ids,
          tag_ids |-> payload.tag_ids,
          keyword |-> payload.keyword]
    ELSE Null

FetchCall(page, keyword, isPollRefresh, cp, feeds, tags, cont) ==
    LET cp1 == IF page = 1 THEN setCurrentPage(cp, Num(1)) ELSE cp
    IN  [currentPage |-> cp1,
         payload |-> Payload(cp1, feeds, tags, keyword),
         frame |-> [page |-> page, isPollRefresh |-> isPollRefresh, cont |-> cont,
                    filter |-> FilterOf(Payload(cp1, feeds, tags, keyword))]]

\* The caller's writes to the store plus the call of fetchAndDisplaySummaries.
IssueFetch(call) ==
    /\ Len(inflight) < MaxInflight
    /\ currentPage' = call.currentPage
    /\ isLoadingMoreArticles' = setIsLoadingMoreArticles(TRUE)
    /\ inflight' = Append(inflight, call.frame)
    /\ sent' = call.payload
    /\ UNCHANGED filtersRecorded

\* uiManager updateFeedFilterButtonStyles (305-317): All Feeds is active when
\* no feed filter is set, a feed's button when its id is in the filter.
updateFeedFilterButtonStyles(buttons, activeIds) ==
    [allFeeds |-> Len(activeIds) = 0,
     feeds |-> {b \in buttons : b \in SeqToSet(activeIds)}]

(***************************************************************************)
(* Filter handlers, script.js 214-259 and 308-314.                         *)
(***************************************************************************)
handleArticleTagClick(tagId) ==
    LET tagIndex == \E i \in 1..Len(activeTagFilterIds) : activeTagFilterIds[i].id = tagId
        tags == IF tagIndex THEN removeActiveTagFilter(activeTagFilterIds, Num(tagId))
                ELSE addActiveTagFilter(activeTagFilterIds, TagObj(tagId))
        feeds == setActiveFeedFilterIds(<<>>)
        cp == setCurrentPage(currentPage, Num(1))
    IN  /\ activeTagFilterIds' = tags
        /\ activeFeedFilterIds' = feeds
        /\ currentKeywordSearch' = setCurrentKeywordSearch(Null)
        /\ IssueFetch(FetchCall(1, Null, FALSE, cp, feeds, tags, Null))
        /\ activeFeedButtons' = updateFeedFilterButtonStyles(feedButtons, feeds)
        /\ ev' = "tagClick"
        /\ UNCHANGED <<dbFeedSources, articlesPerPage, totalPages, totalArticlesAvailable,
                       lastKnownLatestArticleTimestamp, feedButtons, resultsContainer, clamped,
                       configVars, chatVars>>

\* Reached from the chip of an active tag (uiManager updateActiveTagFiltersUI).
handleRemoveTagFilter(tagIdToRemove) ==
    LET tags == removeActiveTagFilter(activeTagFilterIds, Num(tagIdToRemove))
        cp == setCurrentPage(currentPage, Num(1))
    IN  /\ \E i \in 1..Len(activeTagFilterIds) : activeTagFilterIds[i].id = tagIdToRemove
        /\ activeTagFilterIds' = tags
        /\ IssueFetch(FetchCall(1, currentKeywordSearch, FALSE, cp,
                                activeFeedFilterIds, tags, Null))
        /\ ev' = "removeTag"
        /\ UNCHANGED <<dbFeedSources, articlesPerPage, totalPages, totalArticlesAvailable,
                       lastKnownLatestArticleTimestamp, activeFeedFilterIds,
                       currentKeywordSearch, domVars,
                       clamped,
                       configVars, chatVars>>

\* Reached from a rendered feed button (uiManager renderFeedFilterButtons).
handleFeedFilterClick(feedId) ==
    LET feeds == IF feedId \in SeqToSet(activeFeedFilterIds)
                 THEN setActiveFeedFilterIds(<<>>)
                 ELSE setActiveFeedFilterIds(<<feedId>>)
        tags == setActiveTagFilterIds(<<>>)
        cp == setCurrentPage(currentPage, Num(1))
    IN  /\ feedId \in feedButtons
        /\ activeFeedFilterIds' = feeds
        /\ activeTagFilterIds' = tags
        /\ currentKeywordSearch' = setCurrentKeywordSearch(Null)
        /\ IssueFetch(FetchCall(1, Null, FALSE, cp, feeds, tags, Null))
        /\ activeFeedButtons' = updateFeedFilterButtonStyles(feedButtons, feeds)
        /\ ev' = "feedClick"
        /\ UNCHANGED <<dbFeedSources, articlesPerPage, totalPages, totalArticlesAvailable,
                       lastKnownLatestArticleTimestamp, feedButtons, resultsContainer, clamped,
                       configVars, chatVars>>

handleAllFeedsClick ==
    IF Len(activeFeedFilterIds) = 0 /\ Len(activeTagFilterIds) = 0
       /\ ~Truthy(currentKeywordSearch)
    THEN /\ ev' = "allFeedsIgnored"
         /\ UNCHANGED <<storeVars, domVars, netVars, clamped,
                       configVars, chatVars>>
    ELSE LET feeds == setActiveFeedFilterIds(<<>>)
             cp == setCurrentPage(currentPage, Num(1))
         IN  /\ activeFeedFilterIds' = feeds
             /\ IssueFetch(FetchCall(1, currentKeywordSearch, FALSE, cp, feeds,
                                     activeTagFilterIds, Null))
             /\ activeFeedButtons' = updateFeedFilterButtonStyles(feedButtons, feeds)
             /\ ev' = "allFeeds"
             /\ UNCHANGED <<dbFeedSources, articlesPerPage, totalPages,
                            totalArticlesAvailable, lastKnownLatestArticleTimestamp,
                            activeTagFilterIds, currentKeywordSearch, feedButtons,
                            resultsContainer, clamped,
                       configVars, chatVars>>

\* inputValue is the content of the keyword box at the click.
keywordSearchBtnClick(inputValue) ==
    LET searchTerm == Str(Trim(inputValue))
        keyword == setCurrentKeywordSearch(OrElse(searchTerm, Null))
        feeds == setActiveFeedFilterIds(<<>>)
        tags == setActiveTagFilterIds(<<>>)
        cp == setCurrentPage(currentPage, Num(1))
    IN  /\ currentKeywordSearch' = keyword
        /\ activeFeedFilterIds' = feeds
        /\ activeTagFilterIds' = tags
        /\ IssueFetch(FetchCall(1, keyword, FALSE, cp, feeds, tags, Null))
        /\ activeFeedButtons' = updateFeedFilterButtonStyles(feedButtons, feeds)
        /\ ev' = "keywordSearch"
        /\ UNCHANGED <<dbFeedSources, articlesPerPage, totalPages, totalArticlesAvailable,
                       lastKnownLatestArticleTimestamp, feedButtons, resultsContainer, clamped,
                       configVars, chatVars>>

(***************************************************************************)
(* Page-1 reloads that keep the filters: the delayed refresh after         *)
(* "Refresh news" (script.js 328-331), the reload after a cleanup (350),   *)
(* the reload after a page-size change (388-391) and the first load of     *)
(* initializeAppSettings (196).                                            *)
(***************************************************************************)
reloadFirstPage ==
    LET cp == setCurrentPage(currentPage, Num(1))
    IN  /\ IssueFetch(FetchCall(1, currentKeywordSearch, FALSE, cp,
                                activeFeedFilterIds, activeTagFilterIds, Null))
        /\ ev' = "reload"
        /\ UNCHANGED <<dbFeedSources, articlesPerPage, totalPages, totalArticlesAvailable,
                       lastKnownLatestArticleTimestamp, activeFeedFilterIds,
                       activeTagFilterIds, currentKeywordSearch, domVars, clamped,
                       configVars, chatVars>>

(***************************************************************************)
(* The window scroll listener, script.js 363-369.  nearBottom is the       *)
(* geometric part of its condition.                                        *)
(***************************************************************************)
\* Variant: the in-flight flag is not consulted.
ScrollCondition_IgnoresFlag(nearBottom) ==
    nearBottom /\ currentPage < totalPages

\* Variant: the page comparison is <= instead of <.
ScrollCondition_OffByOne(nearBottom) ==
    nearBottom /\ ~isLoadingMoreArticles /\ currentPage <= totalPages

ScrollCondition(nearBottom) ==
    nearBottom /\ ~isLoadingMoreArticles /\ currentPage < totalPages

windowScroll(nearBottom) ==
    IF ScrollCondition(nearBottom)
    THEN LET cp == setCurrentPage(currentPage, Num(currentPage + 1))
         IN  /\ IssueFetch(FetchCall(cp, currentKeywordSearch, FALSE, cp,
                                     activeFeedFilterIds, activeTagFilterIds, Null))
             /\ ev' = "scroll"
             /\ UNCHANGED <<dbFeedSources, articlesPerPage, totalPages,
                            totalArticlesAvailable, lastKnownLatestArticleTimestamp,
                            activeFeedFilterIds, activeTagFilterIds,
                            currentKeywordSearch, domVars,
                            clamped,
                       configVars, chatVars>>
    ELSE /\ ev' = "scrollIgnored"
         /\ UNCHANGED <<storeVars, domVars, netVars, clamped,
                       configVars, chatVars>>

(***************************************************************************)
(* The continuation of fetchAndDisplaySummaries after its await.           *)
(***************************************************************************)
\* script.js 83-87: the reduce over the batch; Null or the newest instant.
RECURSIVE NewestArticleInBatch(_, _)
NewestArticleInBatch(articles, latest) ==
    IF articles = <<>> THEN latest
    ELSE LET created_at == Head(articles)
             next == IF ~Truthy(created_at) THEN latest
                     ELSE IF latest = Null \/ DateOf(created_at) > latest.num
                          THEN Num(DateOf(created_at)) ELSE latest
         IN  NewestArticleInBatch(Tail(articles), next)

\* script.js 82-94
WatermarkAfterBatch(wm, page, articles) ==
    IF page = 1 /\ Len(articles) > 0
    THEN LET newestArticleInBatch == NewestArticleInBatch(articles, Null)
         IN  IF newestArticleInBatch # Null
                /\ (~Truthy(wm) \/ newestArticleInBatch.num > DateOf(wm))
             THEN setLastKnownLatestArticleTimestamp(wm, ToISOString(newestArticleInBatch.num))
             ELSE wm
    ELSE wm

\* Variant: the server's timestamp is stored without comparing it.
WatermarkAfterPoll_Unguarded(wm, latest_article_timestamp) ==
    IF Truthy(latest_article_timestamp)
    THEN setLastKnownLatestArticleTimestamp(wm, latest_article_timestamp)
    ELSE wm

\* Variant: the comparison is >= instead of >.
WatermarkAfterPoll_NotStrict(wm, latest_article_timestamp) ==
    IF Truthy(latest_article_timestamp)
       /\ (~Truthy(wm) \/ DateOf(latest_article_timestamp) >= DateOf(wm))
    THEN setLastKnownLatestArticleTimestamp(wm, latest_article_timestamp)
    ELSE wm

\* script.js 150-155: pollForNewArticles after its call has returned.
WatermarkAfterPoll(wm, latest_article_timestamp) ==
    IF Truthy(latest_article_timestamp)
       /\ (~Truthy(wm) \/ DateOf(latest_article_timestamp) > DateOf(wm))
    THEN setLastKnownLatestArticleTimestamp(wm, latest_article_timestamp)
    ELSE wm

\* Variant: the poll leaves the watermark alone after its refresh.
AfterCall_Skipped(wm, req) == wm

\* What pollForNewArticles does once the refresh it awaited has returned.
AfterCall(wm, req) ==
    IF req.isPollRefresh THEN WatermarkAfterPoll(wm, req.cont) ELSE wm

\* uiManager displayArticleResults: one entry per rendered batch.
\* Variant: a batch is always added below what is shown.
displayArticleResults_Appends(container, articles, clearPrevious, page, filter) ==
    IF Len(articles) = 0 THEN container
    ELSE Append(container, [kind |-> "articles", page |-> page, filter |-> filter])

displayArticleResults(container, articles, clearPrevious, page, filter) ==
    LET base == IF clearPrevious THEN <<>> ELSE container
    IN  IF Len(articles) = 0 THEN base
        ELSE Append(base, [kind |-> "articles", page |-> page, filter |-> filter])

\* uiManager setResultsContainerContent
setResultsContainerContent(kind) == <<[kind |-> kind, page |-> 0]>>

ResponseData == [total_articles_available : TotalArticleCounts,
                 total_pages : 0..MaxPages,
                 processed_articles_on_page : ArticleBatches]

\* script.js 67-106 and 123-130: the response of request i has arrived.
fetchResolved(i, data) ==
    LET req == inflight[i]
        page == req.page
        articles == data.processed_articles_on_page
        shown == displayArticleResults(resultsContainer, articles, page = 1, page, req.filter)
        wm == WatermarkAfterBatch(lastKnownLatestArticleTimestamp, page, articles)
    IN  /\ totalArticlesAvailable' =
              IF page = 1
              THEN setTotalArticlesAvailable(totalArticlesAvailable,
                                             Num(data.total_articles_available))
              ELSE totalArticlesAvailable
        /\ totalPages' = setTotalPages(totalPages, Num(data.total_pages))
        /\ resultsContainer' =
              IF page = 1 /\ Len(articles) = 0 /\ data.total_articles_available = 0
              THEN setResultsContainerContent("noResults")
              ELSE shown
        /\ Len(resultsContainer') <= MaxShown
        /\ isLoadingMoreArticles' = setIsLoadingMoreArticles(FALSE)
        /\ lastKnownLatestArticleTimestamp' = AfterCall(wm, req)
        /\ inflight' = RemoveAt(inflight, i)
        /\ ev' = "fetchResolved"
        /\ clamped' = IF totalPages' > currentPage THEN FALSE ELSE clamped
        /\ UNCHANGED <<dbFeedSources, articlesPerPage, currentPage, activeFeedFilterIds,
                       activeTagFilterIds, currentKeywordSearch, feedButtons,
                       activeFeedButtons, sent, filtersRecorded,
                       configVars, chatVars>>

\* Variant: the catch leaves totalPages alone.
ClampTotalPages_Skipped(old, page) == old

\* script.js 122: the catch stops further infinite-scroll attempts.
ClampTotalPages(old, page) == setTotalPages(old, Num(page))

\* Variant: the error of a later page replaces the list instead of joining it.
ShowFetchError_ReplacesAlways(container, page, isPollRefresh) ==
    IF page = 1 /\ isPollRefresh THEN container ELSE setResultsContainerContent("error")

\* script.js 111-121: where the catch shows the error.
ShowFetchError(container, page, isPollRefresh) ==
    IF page = 1 /\ ~isPollRefresh THEN setResultsContainerContent("error")
    ELSE IF page > 1
         THEN Append(container, [kind |-> "errorMore", page |-> page])
    ELSE container

\* script.js 108-130: request i has failed.
fetchRejected(i) ==
    LET req == inflight[i]
        page == req.page
    IN  /\ resultsContainer' = ShowFetchError(resultsContainer, page, req.isPollRefresh)
        /\ Len(resultsContainer') <= MaxShown
        /\ totalPages' = ClampTotalPages(totalPages, currentPage)
        /\ isLoadingMoreArticles' = setIsLoadingMoreArticles(FALSE)
        /\ lastKnownLatestArticleTimestamp' = AfterCall(lastKnownLatestArticleTimestamp, req)
        /\ inflight' = RemoveAt(inflight, i)
        /\ ev' = "fetchRejected"
        /\ clamped' = TRUE
        /\ UNCHANGED <<dbFeedSources, articlesPerPage, currentPage,
                       totalArticlesAvailable, activeFeedFilterIds, activeTagFilterIds,
                       currentKeywordSearch, feedButtons,
                       activeFeedButtons, sent, filtersRecorded,
                       configVars, chatVars>>

(***************************************************************************)
(* pollForNewArticles, script.js 133-159.  Before its await the handler    *)
(* only reads the watermark to build the URL of the check, so the timer    *)
(* tick changes nothing in the client; the action is the run of the        *)
(* handler from the arrival of the answer pollData.  Checks that overlap   *)
(* are answers arriving one after the other.                               *)
(***************************************************************************)
PollData == [new_articles_available : BOOLEAN,
             latest_article_timestamp : ServerTimestamps \cup {Null}]

pollForNewArticles(pollData) ==
    /\ IF pollData.new_articles_available
       THEN LET keyword == setCurrentKeywordSearch(Null)
            IN  /\ currentKeywordSearch' = keyword
                /\ IssueFetch(FetchCall(1, Null, TRUE, currentPage, activeFeedFilterIds,
                                        activeTagFilterIds,
                                        pollData.latest_article_timestamp))
                /\ ev' = "pollNew"
                /\ UNCHANGED <<dbFeedSources, articlesPerPage, totalPages,
                               totalArticlesAvailable, lastKnownLatestArticleTimestamp,
                               activeFeedFilterIds, activeTagFilterIds>>
       ELSE /\ lastKnownLatestArticleTimestamp' =
                  WatermarkAfterPoll(lastKnownLatestArticleTimestamp,
                                     pollData.latest_article_timestamp)
            /\ ev' = "pollNoNew"
            /\ UNCHANGED <<dbFeedSources, articlesPerPage, currentPage, totalPages,
                           totalArticlesAvailable, isLoadingMoreArticles,
                           activeFeedFilterIds, activeTagFilterIds,
                           currentKeywordSearch, netVars>>
    /\ UNCHANGED <<domVars, clamped,
                       configVars, chatVars>>

\* The check has failed: the catch only logs.
pollFailed ==
    /\ ev' = "pollFailed"
    /\ UNCHANGED <<storeVars, domVars, netVars, clamped,
                       configVars, chatVars>>

(***************************************************************************)
(* handleDeleteFeed, feedHandler.js 239-268.  Before its await the handler *)
(* changes nothing; the actions are its runs from the arrival of the       *)
(* DELETE's answer, for a feed that was listed when the user confirmed.    *)
(***************************************************************************)
\* uiManager renderFeedFilterButtons: one button per feed of the store.
renderFeedFilterButtons(sources) == SeqToSet(sources)

handleDeleteFeed(feedId) ==
    LET sources == setDbFeedSources(SelectSeq(dbFeedSources, LAMBDA f : f # feedId))
    IN  /\ feedId \in SeqToSet(dbFeedSources)
        /\ dbFeedSources' = sources
        /\ feedButtons' = renderFeedFilterButtons(sources)
        /\ activeFeedButtons' =
              updateFeedFilterButtonStyles(renderFeedFilterButtons(sources),
                                           activeFeedFilterIds)
        /\ activeFeedFilterIds' =
              IF feedId \in SeqToSet(activeFeedFilterIds)
              THEN setActiveFeedFilterIds(SelectSeq(activeFeedFilterIds,
                                                    LAMBDA id : id # feedId))
              ELSE activeFeedFilterIds
        /\ ev' = "deleteFeed"
        /\ UNCHANGED <<articlesPerPage, currentPage, totalPages, totalArticlesAvailable,
                       isLoadingMoreArticles, lastKnownLatestArticleTimestamp,
                       activeTagFilterIds, currentKeywordSearch, resultsContainer,
                       netVars, clamped,
                       configVars, chatVars>>

handleDeleteFeedFailed(feedId) ==
    /\ feedId \in SeqToSet(dbFeedSources)
    /\ ev' = "deleteFailed"
    /\ UNCHANGED <<storeVars, domVars, netVars, clamped,
                       configVars, chatVars>>

(***************************************************************************)
(* loadAndRenderDbFeeds, feedHandler.js 102-123, as handleAddFeed (175)    *)
(* and promptEditFeed (225) call it once the page is up: the actions are   *)
(* its runs from the arrival of the feed list's answer.                    *)
(***************************************************************************)
\* The feed lists GET /api/feeds may answer with.
ReloadedFeedLists == {<<>>, <<1>>, <<2>>, <<1, 2>>}

\* Lines 104-111: the list is stored and the filter buttons are rendered anew.
feedsReloaded(feeds) ==
    LET sources == setDbFeedSources(feeds)
    IN  /\ dbFeedSources' = sources
        /\ feedButtons' = renderFeedFilterButtons(sources)
        /\ activeFeedButtons' =
              updateFeedFilterButtonStyles(renderFeedFilterButtons(sources),
                                           activeFeedFilterIds)
        /\ ev' = "feedsReloaded"
        /\ UNCHANGED <<articlesPerPage, currentPage, totalPages, totalArticlesAvailable,
                       isLoadingMoreArticles, lastKnownLatestArticleTimestamp,
                       activeFeedFilterIds, activeTagFilterIds, currentKeywordSearch,
                       resultsContainer, netVars, clamped, configVars, chatVars>>

\* Lines 112-122: the store's list is emptied; the filter buttons of the main
\* page are not rendered anew.
feedsReloadFailed ==
    /\ dbFeedSources' = setDbFeedSources(<<>>)
    /\ ev' = "feedsReloadFailed"
    /\ UNCHANGED <<articlesPerPage, currentPage, totalPages, totalArticlesAvailable,
                   isLoadingMoreArticles, lastKnownLatestArticleTimestamp,
                   activeFeedFilterIds, activeTagFilterIds, currentKeywordSearch,
                   domVars, netVars, clamped, configVars, chatVars>>

(***************************************************************************)
(* Config Manager, script.js 405-689.                                       *)
(***************************************************************************)
\* The settings object of GET /api/initial-config; Null is a missing field.
SettingsObjects ==
    [articles_per_page : {Null, Num(10), Num(100)},
     minimum_word_count : {Null, Num(0)},
     rss_fetch_interval_minutes : {Null, Num(3)},
     summary_prompt : {Null, Str(<<"B", "{text}">>)},
     chat_prompt : {Null},
     tag_generation_prompt : {Null, Str(<<>>)},
     summary_model_name : {Str(<<"m0">>)},
     chat_model_name : {Str(<<>>)},
     tag_model_name : {Null}]

InitialConfigs == [settings : SettingsObjects \cup {Null},
                   all_db_feed_sources : {<<1, 2>>}]

\* What the Setup tab's fields may hold at a submit.
ArticlesPerPageInputs == {<<>>, <<"x">>, <<"0">>, <<"1">>, <<"5", "0">>, <<"5", "1">>}
MinWordCountInputs == {<<>>, <<"-", "1">>, <<"0">>, <<"1", "0", "0", "0">>, <<"1", "0", "0", "1">>}
IntervalInputs == {<<>>, <<"x">>, <<"4">>, <<"5">>}
SummaryPromptInputs == {<<>>, <<" ">>, <<"a">>, <<"a", "{text}", " ">>}
ChatPromptInputs == {<<>>, <<"q">>}
TagPromptInputs == {<<>>, <<"t">>, <<"t", "{text}">>}

\* loadConfigurations, script.js 458-484: the fields it writes.
loadConfigurations(initialBackendConfig) ==
    IF ~Truthy(initialBackendConfig) \/ ~Truthy(initialBackendConfig.settings)
    THEN UNCHANGED <<articlesPerPage, minimumWordCount, globalRssFetchInterval,
                     defaultPrompts, currentPrompts, defaultModels, currentModels>>
    ELSE LET settings == initialBackendConfig.settings
             defaults == setDefaultPrompts(defaultPrompts, settings.summary_prompt,
                                           settings.chat_prompt,
                                           settings.tag_generation_prompt)
             models == setDefaultModels(defaultModels, settings.summary_model_name,
                                        settings.chat_model_name, settings.tag_model_name)
         IN  /\ articlesPerPage' = setArticlesPerPage(articlesPerPage,
                                                     settings.articles_per_page)
             /\ minimumWordCount' = setMinimumWordCount(minimumWordCount,
                                                       settings.minimum_word_count)
             /\ globalRssFetchInterval' =
                    setGlobalRssFetchInterval(globalRssFetchInterval,
                                              settings.rss_fetch_interval_minutes)
             /\ defaultPrompts' = defaults
             /\ currentPrompts' = setCurrentPrompts(defaults, settings.summary_prompt,
                                                   settings.chat_prompt,
                                                   settings.tag_generation_prompt)
             /\ defaultModels' = models
             /\ currentModels' = setCurrentModels(models, settings.summary_model_name,
                                                 settings.chat_model_name,
                                                 settings.tag_model_name)

\* initializeAppSettings, script.js 161-190: the initial configuration has
\* arrived; the handler then awaits the feed list.
initializeAppSettings(initialBackendConfig) ==
    /\ initialized = "boot"
    /\ loadConfigurations(initialBackendConfig)
    /\ dbFeedSources' = setDbFeedSources(initialBackendConfig.all_db_feed_sources)
    /\ initialized' = "feeds"
    /\ ev' = "configLoaded"
    /\ UNCHANGED <<currentPage, totalPages, totalArticlesAvailable,
                   isLoadingMoreArticles, lastKnownLatestArticleTimestamp,
                   activeFeedFilterIds, activeTagFilterIds, currentKeywordSearch,
                   domVars, netVars, clamped, configInflight, chatVars>>

\* loadAndRenderDbFeeds (feedHandler.js 102-123) has the feed list, and
\* initializeAppSettings goes on to the first load, script.js 191-199.
initialFeedsLoaded(feeds) ==
    LET sources == setDbFeedSources(feeds)
    IN  /\ initialized = "feeds"
        /\ dbFeedSources' = sources
        /\ feedButtons' = renderFeedFilterButtons(sources)
        /\ activeFeedButtons' =
              updateFeedFilterButtonStyles(renderFeedFilterButtons(sources),
                                           activeFeedFilterIds)
        /\ IF Len(sources) > 0 \/ Len(activeTagFilterIds) > 0 \/ Truthy(currentKeywordSearch)
           THEN /\ IssueFetch(FetchCall(1, currentKeywordSearch, FALSE, currentPage,
                                        activeFeedFilterIds, activeTagFilterIds, Null))
                /\ UNCHANGED resultsContainer
           ELSE /\ resultsContainer' = setResultsContainerContent("noFeeds")
                /\ UNCHANGED <<currentPage, isLoadingMoreArticles, netVars>>
        /\ initialized' = "ready"
        /\ ev' = "firstLoad"
        /\ UNCHANGED <<articlesPerPage, totalPages, totalArticlesAvailable,
                       lastKnownLatestArticleTimestamp, activeFeedFilterIds,
                       activeTagFilterIds, currentKeywordSearch, clamped,
                       minimumWordCount, globalRssFetchInterval, defaultPrompts,
                       currentPrompts, defaultModels, currentModels, configInflight,
                       chatVars>>

\* saveConfiguration, script.js 545-572, up to its await: the body of the PUT.
SettingsToSave(app, mwc, interval, prompts) ==
    [articles_per_page |-> app,
     minimum_word_count |-> mwc,
     rss_fetch_interval_minutes |-> interval,
     summary_prompt |-> prompts.summary,
     chat_prompt |-> prompts.chat,
     tag_generation_prompt |-> prompts.tag,
     summary_model_name |-> currentModels.summary,
     chat_model_name |-> currentModels.chat,
     tag_model_name |-> currentModels.tag]

\* The same body when the handler has just stored the models.
SettingsWithModels(body, models) ==
    [body EXCEPT !.summary_model_name = models.summary,
                 !.chat_model_name = models.chat,
                 !.tag_model_name = models.tag]

saveConfiguration(body) ==
    /\ Len(configInflight) < MaxSaves
    /\ configInflight' = Append(configInflight, body)

\* Variant: the upper limit of the page size is not checked.
ArticlesPerPageRejected_NoUpperLimit(n) == n = NaN \/ n.num < 1

\* script.js 581 and 585: the two range checks of saveContentPreferences.
ArticlesPerPageRejected(n) == n = NaN \/ n.num < 1 \/ n.num > 50
MinWordCountRejected(n) == n = NaN \/ n.num < 0 \/ n.num > 1000

\* saveContentPreferences, script.js 577-598, with the callback the
\* orchestrator registers (onArticlesPerPageChange, 388-391).
saveContentPreferences(articlesPerPageInput, minWordCountInput) ==
    LET newArticlesPerPage == ParseInt(Str(articlesPerPageInput))
        newMinWordCount == ParseInt(Str(minWordCountInput))
    IN  IF ArticlesPerPageRejected(newArticlesPerPage)
           \/ MinWordCountRejected(newMinWordCount)
        THEN /\ ev' = "contentPrefsRejected"
             /\ UNCHANGED <<storeVars, domVars, netVars, clamped, configVars, chatVars>>
        ELSE LET app == setArticlesPerPage(articlesPerPage, newArticlesPerPage)
                 mwc == setMinimumWordCount(minimumWordCount, newMinWordCount)
                 cp == setCurrentPage(setCurrentPage(currentPage, Num(1)), Num(1))
                 call == FetchCall(1, currentKeywordSearch, FALSE, cp,
                                   activeFeedFilterIds, activeTagFilterIds, Null)
             IN  /\ articlesPerPage' = app
                 /\ minimumWordCount' = mwc
                 /\ saveConfiguration(SettingsToSave(app, mwc, globalRssFetchInterval,
                                                     currentPrompts))
                 \* the payload reads the page size just stored
                 /\ IssueFetch([call EXCEPT !.payload.page_size = app])
                 /\ ev' = "contentPrefs"
                 /\ UNCHANGED <<dbFeedSources, totalPages, totalArticlesAvailable,
                                lastKnownLatestArticleTimestamp, activeFeedFilterIds,
                                activeTagFilterIds, currentKeywordSearch, domVars,
                                clamped, globalRssFetchInterval, defaultPrompts,
                                currentPrompts, defaultModels, currentModels,
                                initialized, chatVars>>

\* Variant: the placeholder is not required.
PromptLacksText_Never(prompt) == FALSE

\* Variant: only an empty prompt is turned away.
PromptLacksText_EmptyOnly(prompt) == ~Truthy(prompt)

\* script.js 605 and 608: newPrompt && !newPrompt.includes("{text}")
PromptLacksText(prompt) == Truthy(prompt) /\ ~Includes(prompt, "{text}")

\* saveAiPrompts, script.js 604-622.
saveAiPrompts(newSummaryPrompt, newChatPrompt, newTagGenerationPrompt) ==
    IF PromptLacksText(Str(newSummaryPrompt)) \/ PromptLacksText(Str(newTagGenerationPrompt))
    THEN /\ ev' = "savePromptsRejected"
         /\ UNCHANGED <<storeVars, domVars, netVars, clamped, configVars, chatVars>>
    ELSE LET prompts ==
                 setCurrentPrompts(defaultPrompts,
                     OrElse(Str(Trim(newSummaryPrompt)), defaultPrompts.summary),
                     OrElse(Str(Trim(newChatPrompt)), defaultPrompts.chat),
                     OrElse(Str(Trim(newTagGenerationPrompt)), defaultPrompts.tag))
         IN  /\ currentPrompts' = prompts
             /\ saveConfiguration(SettingsToSave(articlesPerPage, minimumWordCount,
                                                 globalRssFetchInterval, prompts))
             /\ ev' = "savePrompts"
             /\ UNCHANGED <<storeVars, domVars, netVars, clamped, minimumWordCount,
                            globalRssFetchInterval, defaultPrompts, defaultModels,
                            currentModels, initialized,
                            chatVars>>

\* resetAiPromptsToDefaults, script.js 636-645, when the user confirms.
resetAiPromptsToDefaults ==
    LET prompts == setCurrentPrompts(defaultPrompts, defaultPrompts.summary,
                                     defaultPrompts.chat, defaultPrompts.tag)
    IN  /\ currentPrompts' = prompts
        /\ saveConfiguration(SettingsToSave(articlesPerPage, minimumWordCount,
                                            globalRssFetchInterval, prompts))
        /\ ev' = "resetPrompts"
        /\ UNCHANGED <<storeVars, domVars, netVars, clamped, minimumWordCount,
                       globalRssFetchInterval, defaultPrompts, defaultModels,
                       currentModels, initialized, chatVars>>

\* What the three model selects may hold at a submit.
ModelSelectValues == {<<>>, <<"m1">>}

\* saveAiModels, script.js 627-631, up to the await of the PUT.
saveAiModels(summaryModel, chatModel, tagModel) ==
    LET models == setCurrentModels(defaultModels, Str(summaryModel), Str(chatModel),
                                   Str(tagModel))
    IN  /\ currentModels' = models
        /\ saveConfiguration(SettingsWithModels(
               SettingsToSave(articlesPerPage, minimumWordCount, globalRssFetchInterval,
                              currentPrompts), models))
        /\ ev' = "saveModels"
        /\ UNCHANGED <<storeVars, domVars, netVars, clamped, minimumWordCount,
                       globalRssFetchInterval, defaultPrompts, currentPrompts,
                       defaultModels, initialized, chatVars>>

\* saveGlobalRssFetchInterval, script.js 650-659.
saveGlobalRssFetchInterval(intervalInput) ==
    LET newInterval == ParseInt(Str(intervalInput))
    IN  IF newInterval # NaN /\ newInterval.num >= 5
        THEN LET interval == setGlobalRssFetchInterval(globalRssFetchInterval, newInterval)
             IN  /\ globalRssFetchInterval' = interval
                 /\ saveConfiguration(SettingsToSave(articlesPerPage, minimumWordCount,
                                                     interval, currentPrompts))
                 /\ ev' = "saveInterval"
                 /\ UNCHANGED <<storeVars, domVars, netVars, clamped, minimumWordCount,
                                defaultPrompts, currentPrompts, defaultModels,
                                currentModels, initialized, chatVars>>
        ELSE /\ ev' = "saveIntervalRejected"
             /\ UNCHANGED <<storeVars, domVars, netVars, clamped, configVars, chatVars>>

\* Variant: a failed save puts the prompts and the models back to their defaults.
configSaveSettled_ResetsOnFailure(i, ok) ==
    /\ configInflight' = RemoveAt(configInflight, i)
    /\ ev' = IF ok THEN "configSaved" ELSE "configSaveFailed"
    /\ currentPrompts' = IF ok THEN currentPrompts ELSE defaultPrompts
    /\ currentModels' = IF ok THEN currentModels ELSE defaultModels
    /\ UNCHANGED <<storeVars, domVars, netVars, clamped, minimumWordCount,
                   globalRssFetchInterval, defaultPrompts, defaultModels, initialized,
                   chatVars>>

\* saveConfiguration after its await, script.js 562-571: an alert either way.
configSaveSettled(i, ok) ==
    /\ configInflight' = RemoveAt(configInflight, i)
    /\ ev' = IF ok THEN "configSaved" ELSE "configSaveFailed"
    /\ UNCHANGED <<storeVars, domVars, netVars, clamped, minimumWordCount,
                   globalRssFetchInterval, defaultPrompts, currentPrompts, defaultModels,
                   currentModels, initialized,
                   chatVars>>

(***************************************************************************)
(* The chat modal (chatHandler.js).                                        *)
(***************************************************************************)
MaxChatCalls == 2     \* chat-history loads and chat posts that may be unresolved at once
MaxTurns == 4         \* turns a transcript may hold when a question is sent

ArticleIds == {1, 2}

Turn(role, content) == [role |-> role, content |-> content]
ThinkingMessage == Turn("ai", Str(<<"AI is thinking...">>))

\* What the backend may hold as an article's chat history; null stands for a
\* body without one.
ServerHistories ==
    {Null,
     Arr(<<>>),
     Arr(<<Turn("user", Str(<<"q0">>)), Turn("ai", Str(<<"a0">>))>>)}

QuestionInputs == {<<>>, <<" ">>, <<" ", "q1", " ">>, <<"q2">>}
ChatAnswers == [answer : {Null, Str(<<>>), Str(<<"a1">>)}]

\* state.js 105-107.
setCurrentChatHistory(history) ==
    IF DOMAIN history = {"items"} THEN history.items ELSE <<>>

\* state.js 101-103.
setCurrentArticleForChat(article) == article

\* Array.prototype.pop on the transcript: an empty array stays empty.
Pop(history) == IF history = <<>> THEN <<>> ELSE SubSeq(history, 1, Len(history) - 1)

\* Array.prototype.slice(0, -1), which would keep the just-added question.
SliceBeforeLast(history) == Pop(history)

\* chatHandler.js 172: Array.prototype.slice(0, -2).
SliceBeforeLastTwo(history) ==
    IF Len(history) <= 2 THEN <<>> ELSE SubSeq(history, 1, Len(history) - 2)

\* chatHandler.js 31-67: one element per turn, labelled You or AI; an AI turn
\* without content shows "Processing...", error turns get the error class.
renderChatHistoryInModal(historyArray) ==
    [kind |-> "turns",
     items |-> [i \in 1..Len(historyArray) |->
                 LET chatItem == historyArray[i]
                     content == IF Truthy(chatItem.content) THEN chatItem.content
                                ELSE IF chatItem.role = "ai" THEN Str(<<"Processing...">>)
                                ELSE Str(<<>>)
                 IN  [who |-> IF chatItem.role = "user" THEN "You" ELSE "AI",
                      text |-> content,
                      error |-> /\ chatItem.role = "ai"
                                /\ content.chars # <<>>
                                /\ Head(content.chars) = "AI Error:"]]]

\* Variant: opening the modal also enables the question input and the button.
openArticleChatModal_EnablesInputs(articleId) ==
    /\ currentArticleForChat = Null
    /\ Len(chatInflight) < MaxChatCalls
    /\ currentArticleForChat' = setCurrentArticleForChat(articleId)
    /\ currentChatHistory' = setCurrentChatHistory(Arr(<<>>))
    /\ chatModalHistory' = [kind |-> "loading", items |-> <<>>]
    /\ chatInflight' = Append(chatInflight, [kind |-> "history", articleId |-> articleId])
    /\ chatInputsDisabled' = FALSE
    /\ ev' = "openChat"
    /\ UNCHANGED <<storeVars, domVars, netVars, clamped, configVars, chatSent>>

\* chatHandler.js 96-124 with 72-79: the state is reset, the history area
\* shows the loading text and the history request is sent.
openArticleChatModal(articleId) ==
    /\ currentArticleForChat = Null
    /\ Len(chatInflight) < MaxChatCalls
    /\ currentArticleForChat' = setCurrentArticleForChat(articleId)
    /\ currentChatHistory' = setCurrentChatHistory(Arr(<<>>))
    /\ chatModalHistory' = [kind |-> "loading", items |-> <<>>]
    /\ chatInflight' = Append(chatInflight, [kind |-> "history", articleId |-> articleId])
    /\ ev' = "openChat"
    /\ UNCHANGED <<storeVars, domVars, netVars, clamped, configVars, chatSent,
                   chatInputsDisabled>>

\* chatHandler.js 81-83: the server's history replaces the transcript.
chatHistoryLoaded(i, historyFromServer) ==
    /\ chatInflight[i].kind = "history"
    /\ LET history == setCurrentChatHistory(OrElse(historyFromServer, Arr(<<>>)))
       IN  /\ currentChatHistory' = history
           /\ chatModalHistory' = renderChatHistoryInModal(history)
    /\ chatInflight' = RemoveAt(chatInflight, i)
    /\ ev' = "chatHistoryLoaded"
    /\ UNCHANGED <<storeVars, domVars, netVars, clamped, configVars, currentArticleForChat,
                   chatSent, chatInputsDisabled>>

\* chatHandler.js 84-89.
chatHistoryFailed(i) ==
    /\ chatInflight[i].kind = "history"
    /\ chatModalHistory' = [kind |-> "error", items |-> <<>>]
    /\ chatInflight' = RemoveAt(chatInflight, i)
    /\ ev' = "chatHistoryFailed"
    /\ UNCHANGED <<storeVars, domVars, netVars, clamped, configVars, currentArticleForChat,
                   currentChatHistory, chatSent, chatInputsDisabled>>

\* chatHandler.js 129-136.
closeArticleChatModal ==
    /\ currentArticleForChat # Null
    /\ currentArticleForChat' = setCurrentArticleForChat(Null)
    /\ currentChatHistory' = setCurrentChatHistory(Arr(<<>>))
    /\ ev' = "closeChat"
    /\ UNCHANGED <<storeVars, domVars, netVars, clamped, configVars, chatModalHistory,
                   chatInflight, chatSent, chatInputsDisabled>>

\* chatHandler.js 168-173.
ChatPayload_KeepsQuestion(articleDbId, question, history) ==
    [article_id |-> articleDbId,
     question |-> question,
     chat_prompt |-> PromptToSend(currentPrompts.chat, defaultPrompts.chat),
     chat_history |-> SliceBeforeLast(history)]

ChatPayload(articleDbId, question, history) ==
    [article_id |-> articleDbId,
     question |-> question,
     chat_prompt |-> PromptToSend(currentPrompts.chat, defaultPrompts.chat),
     chat_history |-> SliceBeforeLastTwo(history)]

\* chatHandler.js 141-175: up to the await of the chat request.  The ask
\* button and the question input are disabled while a request is pending, so
\* the handler cannot be started then.
handleModalArticleChatSubmit(inputValue) ==
    /\ ~chatInputsDisabled
    /\ currentArticleForChat # Null
    /\ LET question == Str(Trim(inputValue))
       IN  IF ~Truthy(question)
           THEN /\ ev' = "chatSubmitRejected"
                /\ UNCHANGED <<storeVars, domVars, netVars, clamped, configVars, chatVars>>
           ELSE /\ Len(currentChatHistory) + 2 <= MaxTurns
                /\ Len(chatInflight) < MaxChatCalls
                /\ LET history == Append(Append(currentChatHistory, Turn("user", question)),
                                         ThinkingMessage)
                       payload == ChatPayload(currentArticleForChat, question, history)
                   IN  /\ currentChatHistory' = history
                       /\ chatModalHistory' = renderChatHistoryInModal(history)
                       /\ chatSent' = payload
                       /\ chatInflight' = Append(chatInflight,
                                                 [kind |-> "chat", articleId |-> payload.article_id])
                /\ chatInputsDisabled' = TRUE
                /\ ev' = "chatSubmit"
                /\ UNCHANGED <<storeVars, domVars, netVars, clamped, configVars,
                               currentArticleForChat>>

\* chatHandler.js 178-179 and 188-189: the last entry of whatever the
\* transcript is now is dropped and the turn is pushed.
ReplaceLast(history, turn) == Append(Pop(history), turn)

\* chatHandler.js 175-180 and 191-198.
chatAnswered(i, data) ==
    /\ chatInflight[i].kind = "chat"
    /\ LET answer == OrElse(data.answer, Str(<<"No answer received.">>))
           history == ReplaceLast(currentChatHistory, Turn("ai", answer))
       IN  /\ currentChatHistory' = history
           /\ chatModalHistory' = renderChatHistoryInModal(history)
    /\ chatInputsDisabled' = FALSE
    /\ chatInflight' = RemoveAt(chatInflight, i)
    /\ ev' = "chatAnswered"
    /\ UNCHANGED <<storeVars, domVars, netVars, clamped, configVars, currentArticleForChat,
                   chatSent>>

\* chatHandler.js 186-198.
chatFailed(i) ==
    /\ chatInflight[i].kind = "chat"
    /\ LET history == ReplaceLast(currentChatHistory,
                                  Turn("ai", Str(<<"AI Error:", "message">>)))
       IN  /\ currentChatHistory' = history
           /\ chatModalHistory' = renderChatHistoryInModal(history)
    /\ chatInputsDisabled' = FALSE
    /\ chatInflight' = RemoveAt(chatInflight, i)
    /\ ev' = "chatFailed"
    /\ UNCHANGED <<storeVars, domVars, netVars, clamped, configVars, currentArticleForChat,
                   chatSent>>

OpenChat == \E articleId \in ArticleIds : openArticleChatModal(Num(articleId))
ChatHistoryLoaded ==
    \E i \in 1..Len(chatInflight) : \E h \in ServerHistories : chatHistoryLoaded(i, h)
ChatHistoryFailed == \E i \in 1..Len(chatInflight) : chatHistoryFailed(i)
ChatSubmit == \E inputValue \in QuestionInputs : handleModalArticleChatSubmit(inputValue)
ChatAnswered == \E i \in 1..Len(chatInflight) : \E data \in ChatAnswers : chatAnswered(i, data)
ChatFailed == \E i \in 1..Len(chatInflight) : chatFailed(i)

(***************************************************************************)
(* The specification.                                                      *)
(***************************************************************************)
TagClick == \E tagId \in TagIds : handleArticleTagClick(tagId)
RemoveTag == \E tagId \in TagIds : handleRemoveTagFilter(tagId)
FeedClick == \E feedId \in FeedIds : handleFeedFilterClick(feedId)
KeywordSearch == \E inputValue \in KeywordInputs : keywordSearchBtnClick(inputValue)
Scroll == \E nearBottom \in BOOLEAN : windowScroll(nearBottom)
FetchResolved == \E i \in 1..Len(inflight) : \E data \in ResponseData : fetchResolved(i, data)
FetchRejected == \E i \in 1..Len(inflight) : fetchRejected(i)
Poll == \E pollData \in PollData : pollForNewArticles(pollData)
DeleteFeed == \E feedId \in FeedIds : handleDeleteFeed(feedId)
DeleteFeedFailed == \E feedId \in FeedIds : handleDeleteFeedFailed(feedId)

Next ==
    \/ TagClick
    \/ RemoveTag
    \/ FeedClick
    \/ handleAllFeedsClick
    \/ KeywordSearch
    \/ reloadFirstPage
    \/ Scroll
    \/ FetchResolved
    \/ FetchRejected
    \/ Poll
    \/ pollFailed
    \/ DeleteFeed
    \/ DeleteFeedFailed

Spec == Init /\ [][Next]_vars

(***************************************************************************)
(* The same program with the backend's answers drawn from a part of their  *)
(* domain.                                                                 *)
(*                                                                         *)
(* SpecPaging: no article and no poll answer carries a timestamp, so the   *)
(* watermark stays absent; the feed list is left alone; the filters, the   *)
(* pagination and the results area take all their values.                  *)
(*                                                                         *)
(* SpecFilters: every answer reports at most one page, so the cursor stays *)
(* on page 1; the filters and the feed list take all their values.         *)
(***************************************************************************)
NoTimestamps(articles) == \A i \in 1..Len(articles) : articles[i] = Null

PlainResponseData == {d \in ResponseData : NoTimestamps(d.processed_articles_on_page)}
PlainPollData == {d \in PollData : d.latest_article_timestamp = Null}
SinglePageResponseData == {d \in PlainResponseData : d.total_pages <= 1}

FetchResolvedPlain ==
    \E i \in 1..Len(inflight) : \E data \in PlainResponseData : fetchResolved(i, data)
FetchResolvedSinglePage ==
    \E i \in 1..Len(inflight) : \E data \in SinglePageResponseData : fetchResolved(i, data)
PollPlain == \E pollData \in PlainPollData : pollForNewArticles(pollData)

NextPaging ==
    \/ TagClick
    \/ RemoveTag
    \/ FeedClick
    \/ handleAllFeedsClick
    \/ KeywordSearch
    \/ reloadFirstPage
    \/ Scroll
    \/ FetchResolvedPlain
    \/ FetchRejected
    \/ PollPlain

SpecPaging == Init /\ [][NextPaging]_vars

NextFilters ==
    \/ TagClick
    \/ RemoveTag
    \/ FeedClick
    \/ handleAllFeedsClick
    \/ KeywordSearch
    \/ reloadFirstPage
    \/ Scroll
    \/ FetchResolvedSinglePage
    \/ FetchRejected
    \/ PollPlain
    \/ DeleteFeed

SpecFilters == Init /\ [][NextFilters]_vars

(***************************************************************************)
(* SpecWatermark: articles and poll answers carry timestamps and every     *)
(* answer reports some article; the user searches by keyword, reloads and  *)
(* scrolls.                                                                *)
(***************************************************************************)
NonEmptyResponseData == {d \in ResponseData : d.total_articles_available # 0}

FetchResolvedNonEmpty ==
    \E i \in 1..Len(inflight) : \E data \in NonEmptyResponseData : fetchResolved(i, data)

NextWatermark ==
    \/ KeywordSearch
    \/ reloadFirstPage
    \/ Scroll
    \/ FetchResolvedNonEmpty
    \/ FetchRejected
    \/ Poll
    \/ pollFailed

SpecWatermark == Init /\ [][NextWatermark]_vars

(***************************************************************************)
(* SpecConfig: the session from the start of the page, before the initial  *)
(* configuration has arrived: the content-preference and interval forms of *)
(* the Setup tab and the loads they cause, with answers of at most one     *)
(* page and an initial configuration without prompts.                      *)
(***************************************************************************)
InitBoot ==
    /\ dbFeedSources = <<>>
    /\ articlesPerPage = 6
    /\ currentPage = 1
    /\ totalPages = 1
    /\ totalArticlesAvailable = 0
    /\ isLoadingMoreArticles = FALSE
    /\ lastKnownLatestArticleTimestamp = Null
    /\ activeFeedFilterIds = <<>>
    /\ activeTagFilterIds = <<>>
    /\ currentKeywordSearch = Null
    /\ feedButtons = {}
    /\ activeFeedButtons = [allFeeds |-> TRUE, feeds |-> {}]
    /\ resultsContainer = <<>>
    /\ inflight = <<>>
    /\ sent = Null
    /\ ev = "init"
    /\ clamped = FALSE
    /\ minimumWordCount = 100
    /\ globalRssFetchInterval = 60
    /\ defaultPrompts = BuiltInPrompts
    /\ currentPrompts = BuiltInPrompts
    /\ defaultModels = BuiltInModels
    /\ currentModels = BuiltInModels
    /\ configInflight = <<>>
    /\ initialized = "boot"
    /\ currentArticleForChat = Null
    /\ currentChatHistory = <<>>
    /\ chatModalHistory = <<>>
    /\ chatInflight = <<>>
    /\ chatSent = Null
    /\ chatInputsDisabled = FALSE
    /\ filtersRecorded = FALSE

InitialFeedsLoaded == \E feeds \in {<<>>, <<1, 2>>} : initialFeedsLoaded(feeds)
SaveContentPreferences ==
    \E a \in ArticlesPerPageInputs : \E m \in MinWordCountInputs :
        saveContentPreferences(a, m)
SaveAiPrompts ==
    \E sp \in SummaryPromptInputs : \E cp \in ChatPromptInputs : \E tp \in TagPromptInputs :
        saveAiPrompts(sp, cp, tp)
SaveInterval == \E interval \in IntervalInputs : saveGlobalRssFetchInterval(interval)
ConfigSaveSettled ==
    \E i \in 1..Len(configInflight) : \E ok \in BOOLEAN : configSaveSettled(i, ok)

\* Initial configurations that carry no prompt, and those that carry nothing
\* but prompts.
HasNoPrompt(cfg) ==
    cfg.settings # Null
    => /\ cfg.settings.summary_prompt = Null
       /\ cfg.settings.tag_generation_prompt = Null
HasOnlyPrompts(cfg) ==
    cfg.settings # Null
    => /\ cfg.settings.articles_per_page = Null
       /\ cfg.settings.minimum_word_count = Null
       /\ cfg.settings.rss_fetch_interval_minutes = Null

InitializeAppNoPrompt ==
    \E cfg \in {c \in InitialConfigs : HasNoPrompt(c)} : initializeAppSettings(cfg)
InitializeAppOnlyPrompts ==
    \E cfg \in {c \in InitialConfigs : HasOnlyPrompts(c)} : initializeAppSettings(cfg)

NextConfig ==
    \/ InitializeAppNoPrompt
    \/ InitialFeedsLoaded
    \/ SaveContentPreferences
    \/ SaveInterval
    \/ ConfigSaveSettled
    \/ FetchResolvedSinglePage
    \/ FetchRejected

SpecConfig == InitBoot /\ [][NextConfig]_vars

(***************************************************************************)
(* SpecSetters: the State Store's numeric setters called directly, in any  *)
(* order, with arguments of every kind.                                    *)
(***************************************************************************)
\* Missing (undefined), null-like, NaN, numbers and strings.
SetterArgs ==
    {Null, NaN, Num(0 - 1), Num(0), Num(5),
     Str(<<>>), Str(<<"x">>), Str(<<"-", "2">>), Str(<<"3">>), Str(<<"8", "x">>)}

callSetter(name, arg) ==
    /\ currentPage' = IF name = "setCurrentPage"
                      THEN setCurrentPage(currentPage, arg) ELSE currentPage
    /\ totalPages' = IF name = "setTotalPages"
                     THEN setTotalPages(totalPages, arg) ELSE totalPages
    /\ totalArticlesAvailable' =
          IF name = "setTotalArticlesAvailable"
          THEN setTotalArticlesAvailable(totalArticlesAvailable, arg)
          ELSE totalArticlesAvailable
    /\ articlesPerPage' = IF name = "setArticlesPerPage"
                          THEN setArticlesPerPage(articlesPerPage, arg)
                          ELSE articlesPerPage
    /\ minimumWordCount' = IF name = "setMinimumWordCount"
                           THEN setMinimumWordCount(minimumWordCount, arg)
                           ELSE minimumWordCount
    /\ globalRssFetchInterval' =
          IF name = "setGlobalRssFetchInterval"
          THEN setGlobalRssFetchInterval(globalRssFetchInterval, arg)
          ELSE globalRssFetchInterval
    /\ ev' = name
    /\ UNCHANGED <<dbFeedSources, isLoadingMoreArticles, lastKnownLatestArticleTimestamp,
                   activeFeedFilterIds, activeTagFilterIds, currentKeywordSearch,
                   domVars, netVars, clamped, defaultPrompts, currentPrompts,
                   defaultModels, currentModels,
                   configInflight, initialized, chatVars>>

NumericSetters ==
    {"setCurrentPage", "setTotalPages", "setTotalArticlesAvailable",
     "setArticlesPerPage", "setMinimumWordCount", "setGlobalRssFetchInterval"}

CallSetter == \E name \in NumericSetters : \E arg \in SetterArgs : callSetter(name, arg)

NextSetters == CallSetter

SpecSetters == InitBoot /\ [][NextSetters]_vars

(***************************************************************************)
(* The chat modal alone: opening, closing, the history load and questions. *)
(***************************************************************************)
NextChat ==
    \/ OpenChat
    \/ ChatHistoryLoaded
    \/ ChatHistoryFailed
    \/ closeArticleChatModal
    \/ ChatSubmit
    \/ ChatAnswered
    \/ ChatFailed

SpecChat == Init /\ [][NextChat]_vars

(***************************************************************************)
(* The prompts: the initial configuration, the prompt form, and the        *)
(* article and chat requests that carry prompts.                           *)
(***************************************************************************)
OpenChatOne == openArticleChatModal(Num(1))
ChatSubmitOne == handleModalArticleChatSubmit(<<"q2">>)
ChatAnsweredOne ==
    \E i \in 1..Len(chatInflight) : chatAnswered(i, [answer |-> Str(<<"a1">>)])

\* The prompt form with a summary prompt and a chat prompt that are each
\* empty (standing for the default) or a custom text.
SaveAiPromptsCustom ==
    \E sp \in {<<>>, <<"a", "{text}", " ">>} : \E cp \in ChatPromptInputs :
        saveAiPrompts(sp, cp, <<>>)

NextPrompts ==
    \/ InitializeAppOnlyPrompts
    \/ InitialFeedsLoaded
    \/ SaveAiPromptsCustom
    \/ resetAiPromptsToDefaults
    \/ ConfigSaveSettled
    \/ reloadFirstPage
    \/ FetchRejected
    \/ OpenChatOne
    \/ ChatSubmitOne
    \/ ChatAnsweredOne

SpecPrompts == InitBoot /\ [][NextPrompts]_vars

(***************************************************************************)
(* The prompt form alone, with every text of the three boxes.              *)
(***************************************************************************)
NextPromptForm ==
    \/ InitializeAppOnlyPrompts
    \/ SaveAiPrompts
    \/ resetAiPromptsToDefaults
    \/ ConfigSaveSettled

SpecPromptForm == InitBoot /\ [][NextPromptForm]_vars

(***************************************************************************)
(* The visible list: filter changes, infinite scroll and poll refreshes    *)
(* whose requests all succeed with a full page; the frames keep the filter *)
(* of their request.                                                       *)
(***************************************************************************)
InitVisible == InitState /\ filtersRecorded = TRUE

FullPageResponseData ==
    {d \in PlainResponseData : /\ d.processed_articles_on_page # <<>>
                               /\ d.total_pages >= 1
                               /\ d.total_articles_available > 0}

FetchResolvedFullPage ==
    \E i \in 1..Len(inflight) : \E data \in FullPageResponseData : fetchResolved(i, data)

NextVisible ==
    \/ FeedClick
    \/ handleAllFeedsClick
    \/ KeywordSearch
    \/ Scroll
    \/ FetchResolvedFullPage
    \/ PollPlain

SpecVisible == InitVisible /\ [][NextVisible]_vars





(***************************************************************************)
(* Properties.                                                             *)
(***************************************************************************)
FeedActive == Len(activeFeedFilterIds) > 0
TagActive == Len(activeTagFilterIds) > 0
KeywordActive == currentKeywordSearch # Null /\ currentKeywordSearch.chars # <<>>

ActiveTagIds == {activeTagFilterIds[i].id : i \in 1..Len(activeTagFilterIds)}

\* The handlers that change the filter and fetch.
FilterChangeOps == {"tagClick", "removeTag", "feedClick", "allFeeds", "keywordSearch"}
\* The handlers that apply a filter of one kind.
FilterApplyOps == {"tagClick", "feedClick", "keywordSearch"}
\* Every handler run that sends an article request.
IssueOps == FilterChangeOps \cup {"reload", "scroll", "pollNew"}

\* C1: in every reachable state at most one of the three filter kinds (feed
\* filter, tag filter, keyword) is active.
C1_AtMostOneFilterKind ==
    /\ ~(FeedActive /\ TagActive)
    /\ ~(FeedActive /\ KeywordActive)
    /\ ~(TagActive /\ KeywordActive)

\* Two tags are active after a tag click, with one feed already deleted.
C1_Witness ==
    ev = "tagClick" /\ Len(activeTagFilterIds) = 2 /\ Len(dbFeedSources) = 1

\* C2 as stated: a filter of kind B applied right after a filter of kind A
\* leaves exactly kind B active and both other kinds empty.
C2_ExactlyLastKindActive ==
    [][(ev \in FilterApplyOps /\ ev' \in FilterApplyOps)
        => /\ FeedActive' <=> (ev' = "feedClick")
           /\ TagActive' <=> (ev' = "tagClick")
           /\ KeywordActive' <=> (ev' = "keywordSearch")]_vars

\* C2 amended: a filter of kind B applied in any state (so also right after a
\* filter of kind A) leaves both other kinds empty; kind B is then active
\* unless the click toggled off the feed that was active, removed the only
\* active tag, or searched with a blank keyword box.
C2_OthersEmptyLastKindUnlessToggled ==
    [][/\ \A feedId \in FeedIds :
            handleFeedFilterClick(feedId)
            => /\ ~TagActive' /\ ~KeywordActive'
               /\ IF feedId \in SeqToSet(activeFeedFilterIds)
                  THEN ~FeedActive'
                  ELSE activeFeedFilterIds' = <<feedId>>
       /\ \A tagId \in TagIds :
            handleArticleTagClick(tagId)
            => /\ ~FeedActive' /\ ~KeywordActive'
               /\ IF tagId \in ActiveTagIds
                  THEN ActiveTagIds' = ActiveTagIds \ {tagId}
                  ELSE ActiveTagIds' = ActiveTagIds \cup {tagId}
       /\ \A inputValue \in KeywordInputs :
            keywordSearchBtnClick(inputValue)
            => /\ ~FeedActive' /\ ~TagActive'
               /\ IF \A k \in 1..Len(inputValue) : inputValue[k] = " "
                  THEN currentKeywordSearch' = Null
                  ELSE KeywordActive']_vars

\* A keyword search has just replaced another filter whose request is still
\* unresolved.
C2_Witness ==
    ev = "keywordSearch" /\ KeywordActive /\ Len(inflight) = 2

\* C3: every filter change sets currentPage to 1 and sends a request for
\* page 1, whatever the page was before.
C3_FilterChangeResetsPage ==
    [][ev' \in FilterChangeOps
        => /\ currentPage' = 1
           /\ Len(inflight') = Len(inflight) + 1
           /\ Last(inflight').page = 1
           /\ sent'.page = 1]_vars

\* A tag click has reset the page while a load of page 2 is unresolved.
C3_Witness ==
    /\ ev = "tagClick" /\ currentPage = 1
    /\ Len(inflight) = 2 /\ inflight[1].page = 2

\* C4: the watermark never goes back: it is replaced only by a timestamp of a
\* strictly later instant, and once set it is never absent again.
C4_WatermarkMonotonic ==
    [][/\ lastKnownLatestArticleTimestamp # Null
          => /\ lastKnownLatestArticleTimestamp' # Null
             /\ DateOf(lastKnownLatestArticleTimestamp')
                  >= DateOf(lastKnownLatestArticleTimestamp)
       /\ lastKnownLatestArticleTimestamp' # lastKnownLatestArticleTimestamp
          => /\ lastKnownLatestArticleTimestamp' # Null
             /\ lastKnownLatestArticleTimestamp = Null
                \/ DateOf(lastKnownLatestArticleTimestamp')
                     > DateOf(lastKnownLatestArticleTimestamp)]_vars

\* A poll answer has moved the watermark to the latest instant.
C4_Witness ==
    /\ ev = "pollNoNew"
    /\ lastKnownLatestArticleTimestamp = Timestamp(MaxTime, "server")

\* C5 as stated: after a poll answer with new_articles_available no filter
\* of any kind is active, the page is 1 and the request sent carries no
\* feed_source_ids, no tag_ids and no keyword.
C5_PollForcesNoFilter ==
    ev = "pollNew"
    => /\ ~FeedActive /\ ~TagActive /\ currentKeywordSearch = Null
       /\ currentPage = 1
       /\ sent.page = 1
       /\ sent.feed_source_ids = Null
       /\ sent.tag_ids = Null
       /\ sent.keyword = Null

\* C6: a poll answer without new articles whose timestamp is not later than
\* the watermark sends no request and leaves the watermark, the filters, the
\* page and the results area as they were.
C6_StalePollChangesNothing ==
    [][\A pollData \in PollData :
          (/\ pollForNewArticles(pollData)
           /\ ~pollData.new_articles_available
           /\ lastKnownLatestArticleTimestamp # Null
           /\ pollData.latest_article_timestamp # Null
           /\ DateOf(pollData.latest_article_timestamp)
                <= DateOf(lastKnownLatestArticleTimestamp))
          => UNCHANGED <<lastKnownLatestArticleTimestamp, activeFeedFilterIds,
                         activeTagFilterIds, currentKeywordSearch, currentPage,
                         totalPages, isLoadingMoreArticles, resultsContainer,
                         inflight, sent>>]_vars

\* A poll answer without new articles has arrived while a keyword filter is
\* active, articles are shown and the watermark comes from a shown batch.
C6_Witness ==
    /\ ev = "pollNoNew"
    /\ lastKnownLatestArticleTimestamp = Timestamp(MaxTime, "iso")
    /\ KeywordActive
    /\ resultsContainer # <<>>

\* C7: a scroll event while a load is in flight changes neither the page nor
\* the requests; a scroll event sends a request only when no load is in
\* flight and currentPage < totalPages, and then the page advances by one.
C7_ScrollGuard ==
    [][ev' \in {"scroll", "scrollIgnored"}
        => /\ isLoadingMoreArticles => UNCHANGED <<currentPage, inflight, sent>>
           /\ inflight' # inflight
              => /\ ~isLoadingMoreArticles
                 /\ currentPage < totalPages
                 /\ currentPage' = currentPage + 1
                 /\ Len(inflight') = Len(inflight) + 1
                 /\ sent'.page = currentPage + 1]_vars

\* A scroll event was ignored during a load although pages remain.
C7_Witness ==
    ev = "scrollIgnored" /\ isLoadingMoreArticles /\ currentPage < totalPages

\* C8 as stated: when an infinite-scroll load starts, no other article
\* request is unresolved.
C8_ScrollLoadsAlone ==
    ev = "scroll" => Len(inflight) = 1

\* C9 as stated: every request asks for a page <= totalPages.
C9_RequestWithinTotalPages ==
    ev \in IssueOps => sent.page <= totalPages

\* C9 amended: an infinite-scroll request asks for a page <= totalPages; every
\* other request asks for page 1, whatever totalPages is.
C9_ScrollWithinTotalOthersPageOne ==
    /\ ev = "scroll" => sent.page <= totalPages /\ sent.page = currentPage
    /\ ev \in IssueOps \ {"scroll"} => sent.page = 1

\* A feed click has asked for page 1 after the backend reported no page.
C9_Witness ==
    ev = "feedClick" /\ totalPages = 0 /\ sent.page = 1

\* C10: a failed fetch sets totalPages to the current page; from then on, and
\* until an answer reports more pages than the current page, the scroll
\* condition is false and no infinite-scroll load starts.
C10_FailureStopsScroll ==
    /\ ev = "fetchRejected" => totalPages = currentPage
    /\ clamped => isLoadingMoreArticles \/ currentPage >= totalPages
    /\ ev = "scroll" => ~clamped

\* After a failed load of page 2, a scroll event was ignored.
C10_Witness ==
    /\ ev = "scrollIgnored" /\ clamped /\ ~isLoadingMoreArticles
    /\ currentPage = 2 /\ totalPages = 2

\* C11 as stated: a failed fetch of page 1 replaces the results area with the
\* error message, whoever called it; a failed fetch of a later page appends
\* the error message after everything that was shown.
C11_FailureShowsError ==
    [][\A i \in 1..Len(inflight) :
          fetchRejected(i)
          => IF inflight[i].page = 1
             THEN resultsContainer' = <<[kind |-> "error", page |-> 0]>>
             ELSE resultsContainer'
                    = Append(resultsContainer,
                             [kind |-> "errorMore", page |-> inflight[i].page])]_vars

\* C11 amended: as stated for every fetch that is not a poll refresh; a failed
\* poll refresh leaves the results area as it was.
C11_FailureShowsErrorUnlessPoll ==
    [][\A i \in 1..Len(inflight) :
          fetchRejected(i)
          => IF inflight[i].isPollRefresh
             THEN resultsContainer' = resultsContainer
             ELSE IF inflight[i].page = 1
             THEN resultsContainer' = <<[kind |-> "error", page |-> 0]>>
             ELSE resultsContainer'
                    = Append(resultsContainer,
                             [kind |-> "errorMore", page |-> inflight[i].page])]_vars

\* A load of page 2 has failed below a list of articles that is still shown.
C11_Witness ==
    /\ ev = "fetchRejected" /\ Len(resultsContainer) >= 2
    /\ resultsContainer[1].kind = "articles"
    /\ Last(resultsContainer).kind = "errorMore"

\* A field's text is a decimal numeral: digits, with an optional leading minus.
IsNumeral(input) ==
    /\ input # <<>>
    /\ \A k \in 1..Len(input) :
          IsDigit(input[k]) \/ (k = 1 /\ input[k] = "-" /\ Len(input) > 1)

NumeralWithin(input, lo, hi) ==
    IsNumeral(input) /\ ParseInt(Str(input)).num >= lo /\ ParseInt(Str(input)).num <= hi

C15_PageSizeWithinRange ==
    /\ articlesPerPage >= 1 /\ articlesPerPage <= 50
    /\ sent # Null => sent.page_size >= 1 /\ sent.page_size <= 50

\* Whether a setter's argument names a number of at least min.
ArgAtLeast(arg, min) == ParseInt(arg) # NaN /\ ParseInt(arg).num >= min

\* C16: after any sequence of setter calls currentPage >= 1, totalPages >= 0,
\* totalArticlesAvailable >= 0, articlesPerPage >= 1, minimumWordCount >= 0
\* and globalRssFetchInterval >= 5; a call whose argument names no number, or
\* a number below the field's minimum, leaves the field as it was, and every
\* call leaves the other fields as they were.
C16_SettersKeepRanges ==
    [][/\ currentPage' >= 1 /\ totalPages' >= 0 /\ totalArticlesAvailable' >= 0
       /\ articlesPerPage' >= 1 /\ minimumWordCount' >= 0
       /\ globalRssFetchInterval' >= 5
       /\ \E arg \in SetterArgs :
            /\ callSetter(ev', arg)
            /\ currentPage' = IF ev' = "setCurrentPage" /\ ArgAtLeast(arg, 1)
                              THEN ParseInt(arg).num ELSE currentPage
            /\ totalPages' = IF ev' = "setTotalPages" /\ ArgAtLeast(arg, 0)
                             THEN ParseInt(arg).num ELSE totalPages
            /\ totalArticlesAvailable' =
                  IF ev' = "setTotalArticlesAvailable" /\ ArgAtLeast(arg, 0)
                  THEN ParseInt(arg).num ELSE totalArticlesAvailable
            /\ articlesPerPage' = IF ev' = "setArticlesPerPage" /\ ArgAtLeast(arg, 1)
                                  THEN ParseInt(arg).num ELSE articlesPerPage
            /\ minimumWordCount' = IF ev' = "setMinimumWordCount" /\ ArgAtLeast(arg, 0)
                                   THEN ParseInt(arg).num ELSE minimumWordCount
            /\ globalRssFetchInterval' =
                  IF ev' = "setGlobalRssFetchInterval" /\ ArgAtLeast(arg, 5)
                  THEN ParseInt(arg).num ELSE globalRssFetchInterval]_vars

\* setArticlesPerPage has run after every other field had been moved to the
\* bottom of its range.
C16_Witness ==
    /\ ev = "setArticlesPerPage" /\ articlesPerPage = 3
    /\ currentPage = 3 /\ totalPages = 0 /\ totalArticlesAvailable = 0
    /\ minimumWordCount = 0 /\ globalRssFetchInterval = 5

\* C18: when a chat request completes, the transcript is the transcript from
\* before the question was sent, followed by the user turn and exactly one
\* assistant turn that is not the placeholder.
C18_PlaceholderReplaced ==
    [][ev' \in {"chatAnswered", "chatFailed"}
       => /\ Len(currentChatHistory') = Len(chatSent.chat_history) + 2
          /\ SubSeq(currentChatHistory', 1, Len(chatSent.chat_history)) = chatSent.chat_history
          /\ currentChatHistory'[Len(chatSent.chat_history) + 1]
               = Turn("user", chatSent.question)
          /\ Last(currentChatHistory').role = "ai"
          /\ \A k \in 1..Len(currentChatHistory') :
               currentChatHistory'[k] # ThinkingMessage]_vars

\* C19: the chat_history of a chat request is the transcript as it was when
\* the question was submitted, before the user turn and the placeholder were
\* added.
C19_HistoryExcludesNewTurns ==
    [][ev' = "chatSubmit" => chatSent'.chat_history = currentChatHistory]_vars

C19_Witness ==
    /\ ev = "chatSubmit"
    /\ Len(chatSent.chat_history) = 2
    /\ Len(currentChatHistory) = 4
    /\ currentChatHistory[3] = Turn("user", chatSent.question)
    /\ currentChatHistory[4] = ThinkingMessage

\* An article request or a chat request that is sent carries a prompt exactly
\* when the current prompt differs from its default.
PromptsSentIffCustom ==
    /\ Len(inflight') > Len(inflight)
       => /\ sent'.summary_prompt # Null
               <=> currentPrompts'.summary # defaultPrompts'.summary
          /\ sent'.tag_generation_prompt # Null
               <=> currentPrompts'.tag # defaultPrompts'.tag
          /\ sent'.summary_prompt \in {Null, currentPrompts'.summary}
          /\ sent'.tag_generation_prompt \in {Null, currentPrompts'.tag}
    /\ ev' = "chatSubmit"
       => /\ chatSent'.chat_prompt # Null <=> currentPrompts'.chat # defaultPrompts'.chat
          /\ chatSent'.chat_prompt \in {Null, currentPrompts'.chat}

\* C12 as stated: a prompt is sent exactly when it differs from its default,
\* and after every loadConfigurations and every resetAiPromptsToDefaults the
\* current prompts are the defaults, so that no prompt is sent.
C12_PromptsSentIffCustom ==
    [][/\ PromptsSentIffCustom
       /\ ev' \in {"configLoaded", "resetPrompts"} => currentPrompts' = defaultPrompts']_vars

\* C12: a prompt is sent exactly when it differs from its default; the
\* current prompts are the defaults after resetAiPromptsToDefaults and after a
\* loadConfigurations whose configuration has a settings object.
C12_PromptsSentIffCustomSettingsLoaded ==
    [][/\ PromptsSentIffCustom
       /\ ev' = "resetPrompts" => currentPrompts' = defaultPrompts'
       /\ /\ ev' = "configLoaded"
          /\ \E cfg \in InitialConfigs :
               cfg.settings # Null /\ initializeAppSettings(cfg)
          => currentPrompts' = defaultPrompts']_vars

C12_Witness ==
    /\ sent # Null
    /\ sent.summary_prompt = Str(<<"a", "{text}">>)
    /\ sent.tag_generation_prompt = Null
    /\ chatSent # Null
    /\ chatSent.chat_prompt = Null
    /\ defaultPrompts.summary = Str(<<"B", "{text}">>)

\* The text of a prompt box asks for the default (it is empty) or holds the
\* placeholder {text}.
EmptyOrHasText(input) == input = <<>> \/ Includes(Str(input), "{text}")

\* What an accepted save does: the current prompts are the trimmed texts, the
\* default standing in for an empty text, and a PUT carries them.
AcceptedSaveStoresAndSends ==
    /\ \E sp \in SummaryPromptInputs : \E cp \in ChatPromptInputs : \E tp \in TagPromptInputs :
         /\ saveAiPrompts(sp, cp, tp)
         /\ currentPrompts'.summary =
              (IF Trim(sp) = <<>> THEN defaultPrompts.summary ELSE Str(Trim(sp)))
         /\ currentPrompts'.chat =
              (IF Trim(cp) = <<>> THEN defaultPrompts.chat ELSE Str(Trim(cp)))
         /\ currentPrompts'.tag =
              (IF Trim(tp) = <<>> THEN defaultPrompts.tag ELSE Str(Trim(tp)))
    /\ Len(configInflight') = Len(configInflight) + 1
    /\ Last(configInflight').summary_prompt = currentPrompts'.summary
    /\ Last(configInflight').chat_prompt = currentPrompts'.chat
    /\ Last(configInflight').tag_generation_prompt = currentPrompts'.tag

\* A rejected save changes no prompt field and issues no PUT.
RejectedSaveChangesNothing == UNCHANGED <<defaultPrompts, currentPrompts, configInflight>>

\* C13 as stated: a save whose summary or tag prompt omits {text} is rejected
\* without a state change or a PUT, and a save whose prompts contain {text} is
\* accepted, stored and sent.
C13_PromptWithoutTextRejected ==
    [][/\ ev' = "savePromptsRejected" => RejectedSaveChangesNothing
       /\ ev' = "savePrompts"
          => /\ AcceptedSaveStoresAndSends
             /\ \A sp \in SummaryPromptInputs : \A cp \in ChatPromptInputs :
                  \A tp \in TagPromptInputs :
                    ~Includes(Str(sp), "{text}") \/ ~Includes(Str(tp), "{text}")
                    => ~saveAiPrompts(sp, cp, tp)]_vars

\* C13: a save with a non-empty summary or tag prompt that omits {text} is
\* rejected without a state change or a PUT; a save in which each of the two
\* is empty or contains {text} is accepted, stored (an empty box standing for
\* the default) and sent.
C13_NonEmptyPromptWithoutTextRejected ==
    [][/\ ev' = "savePromptsRejected"
          => /\ RejectedSaveChangesNothing
             /\ \A sp \in SummaryPromptInputs : \A cp \in ChatPromptInputs :
                  \A tp \in TagPromptInputs :
                    EmptyOrHasText(sp) /\ EmptyOrHasText(tp) => ~saveAiPrompts(sp, cp, tp)
       /\ ev' = "savePrompts"
          => /\ AcceptedSaveStoresAndSends
             /\ \A sp \in SummaryPromptInputs : \A cp \in ChatPromptInputs :
                  \A tp \in TagPromptInputs :
                    ~(EmptyOrHasText(sp) /\ EmptyOrHasText(tp))
                    => ~saveAiPrompts(sp, cp, tp)]_vars

C13_Witness ==
    /\ ev = "savePrompts"
    /\ currentPrompts.summary = Str(<<"a", "{text}">>)
    /\ currentPrompts.tag = defaultPrompts.tag
    /\ Len(configInflight) = 1
    /\ configInflight[1].summary_prompt = Str(<<"a", "{text}">>)

\* C17: after a successful deletion the deleted feed is not in the feed
\* filter, a filter that held only that feed is empty, and the feed-filter
\* buttons show the filter as it is after the deletion.
C17_DeleteClearsFilterAndControls ==
    [][ev' = "deleteFeed"
       => /\ \A f \in SeqToSet(dbFeedSources) \ SeqToSet(dbFeedSources') :
               /\ f \notin SeqToSet(activeFeedFilterIds')
               /\ activeFeedFilterIds = <<f>> => activeFeedFilterIds' = <<>>
          /\ activeFeedButtons' = updateFeedFilterButtonStyles(feedButtons',
                                                              activeFeedFilterIds')]_vars

\* The filter that is active now, as a request would carry it.
ActiveFilter ==
    FilterOf(Payload(currentPage, activeFeedFilterIds, activeTagFilterIds,
                     currentKeywordSearch))

\* The article batches the results area shows, in display order.
DisplayedBatches == SelectSeq(resultsContainer, LAMBDA e : e.kind = "articles")

\* C20: whenever no article request is unresolved, every displayed batch was
\* fetched with the filter that is active now, and the displayed batches are
\* pages 1..currentPage, each once and in increasing order.
C20_ListMatchesFilterAndPage ==
    inflight = <<>> /\ DisplayedBatches # <<>>
    => /\ \A k \in 1..Len(DisplayedBatches) :
            /\ DisplayedBatches[k].filter = ActiveFilter
            /\ DisplayedBatches[k].page = k
       /\ Len(DisplayedBatches) = currentPage

\* C22: whenever no article request is unresolved, isLoadingMoreArticles is
\* false.
C22_FlagClearWhenIdle == inflight = <<>> => ~isLoadingMoreArticles

C22_Witness ==
    /\ ev \in {"fetchResolved", "fetchRejected"}
    /\ inflight = <<>>
    /\ ~isLoadingMoreArticles
    /\ currentPage = 2

\* C26: the feed filter never holds more than one id; a click on a feed that
\* is not active makes the filter exactly that id, a click on the active feed
\* empties it, and both clear the tag filter and the keyword.
C26_FeedFilterSingleOrToggled ==
    [][/\ Len(activeFeedFilterIds) <= 1
       /\ Len(activeFeedFilterIds') <= 1
       /\ ev' = "feedClick"
          => /\ \E feedId \in FeedIds :
                  /\ handleFeedFilterClick(feedId)
                  /\ activeFeedFilterIds' =
                       (IF feedId \in SeqToSet(activeFeedFilterIds) THEN <<>>
                        ELSE <<feedId>>)
             /\ activeTagFilterIds' = <<>>
             /\ currentKeywordSearch' = Null]_vars

C26_Witness ==
    /\ ev = "feedClick"
    /\ activeFeedFilterIds = <<2>>
    /\ Len(inflight) = 2
    /\ inflight[1].page = 1

\* C28: All Feeds changes nothing and fetches nothing when no filter is
\* active; otherwise it empties the feed filter only, keeps the tags and the
\* keyword, resets the page to 1 and requests page 1 with the tags and the
\* keyword that remain.
C28_AllFeedsFrame ==
    [][/\ ev' = "allFeedsIgnored"
          => /\ ~FeedActive /\ ~TagActive /\ ~KeywordActive
             /\ UNCHANGED <<storeVars, domVars, netVars, configVars, chatVars>>
       /\ ev' = "allFeeds"
          => /\ FeedActive \/ TagActive \/ KeywordActive
             /\ activeFeedFilterIds' = <<>>
             /\ UNCHANGED <<activeTagFilterIds, currentKeywordSearch>>
             /\ currentPage' = 1
             /\ Len(inflight') = Len(inflight) + 1
             /\ sent'.page = 1
             /\ sent'.feed_source_ids = Null
             /\ sent'.tag_ids =
                  (IF TagActive
                   THEN Arr([i \in 1..Len(activeTagFilterIds) |-> activeTagFilterIds[i].id])
                   ELSE Null)
             /\ sent'.keyword = currentKeywordSearch]_vars

C28_Witness ==
    /\ ev = "allFeeds"
    /\ KeywordActive
    /\ sent.keyword = currentKeywordSearch
    /\ activeFeedFilterIds = <<>>

\* C21: whatever else is unresolved and whatever was shown, a page-1 response
\* that arrives leaves the list showing its own batch alone and totalPages at
\* its total_pages; so of a user request and a poll refresh that are both
\* unresolved, the one that resolves last decides both, in either order of
\* issue.
C21_LastResolvedWins ==
    [][ev' = "fetchResolved"
       => \E i \in 1..Len(inflight) : \E data \in FullPageResponseData :
            /\ fetchResolved(i, data)
            /\ inflight[i].page = 1
               => /\ resultsContainer' = <<[kind |-> "articles", page |-> 1,
                                            filter |-> inflight[i].filter]>>
                  /\ totalPages' = data.total_pages]_vars

\* A keyword search and a poll refresh were unresolved together; the search
\* has just resolved and shows its batch, the poll refresh is still to come.
C21_Witness ==
    /\ ev = "fetchResolved"
    /\ Len(inflight) = 1
    /\ inflight[1].page = 1
    /\ inflight[1].isPollRefresh
    /\ inflight[1].filter.keyword = Null
    /\ resultsContainer # <<>>
    /\ resultsContainer[1].kind = "articles"
    /\ resultsContainer[1].filter.keyword # Null

\* C23: when the page-1 refresh of a poll fails, the watermark still becomes
\* the poll's latest_article_timestamp if that is present and strictly later
\* than the watermark (or the watermark is absent), and the step sends no
\* request.
C23_FailedRefreshAdvancesWatermark ==
    [][ev' = "fetchRejected"
       => \E i \in 1..Len(inflight) :
            /\ fetchRejected(i)
            /\ inflight[i].isPollRefresh
               => LET ts == inflight[i].cont
                      wm == lastKnownLatestArticleTimestamp
                  IN  /\ lastKnownLatestArticleTimestamp' =
                           (IF ts # Null /\ (wm = Null \/ ts.t > wm.t) THEN ts ELSE wm)
                      /\ inflight' = RemoveAt(inflight, i)
                      /\ UNCHANGED sent]_vars

\* The refresh of a poll has failed with nothing ever shown, and the
\* watermark stands at the poll's timestamp.
C23_Witness ==
    /\ ev = "fetchRejected"
    /\ inflight = <<>>
    /\ resultsContainer = <<>>
    /\ lastKnownLatestArticleTimestamp = Timestamp(MaxTime, "server")

\* C24: the transcript is empty whenever no article is open for chat, and a
\* response (chat answer, chat error, chat history) that arrives for an
\* article other than the one open now leaves the transcript as it is.
C24_TranscriptOfOpenArticle ==
    [][/\ currentArticleForChat' = Null => currentChatHistory' = <<>>
       /\ \A i \in 1..Len(chatInflight) :
            /\ ev' \in {"chatAnswered", "chatFailed", "chatHistoryLoaded"}
            /\ chatInflight' = RemoveAt(chatInflight, i)
            /\ chatInflight[i].articleId # currentArticleForChat
            => UNCHANGED currentChatHistory]_vars

\* The chat questions that are unresolved.
ChatQuestionsInFlight == {i \in 1..Len(chatInflight) : chatInflight[i].kind = "chat"}

\* C25: at most one chat question is unresolved, and while one is the
\* question input and the ask button are disabled.
C25_OneQuestionInFlight ==
    /\ Cardinality(ChatQuestionsInFlight) <= 1
    /\ ChatQuestionsInFlight # {} <=> chatInputsDisabled

\* The modal was closed and opened again for the other article while the
\* question is unresolved.
C25_Witness ==
    /\ ev = "openChat"
    /\ chatInputsDisabled
    /\ Cardinality(ChatQuestionsInFlight) = 1
    /\ \E i \in ChatQuestionsInFlight : chatInflight[i].articleId # currentArticleForChat

(***************************************************************************)
(* SpecFeeds: the user filters by feed, deletes feeds, and adds or edits   *)
(* feeds, which reloads the feed list.                                     *)
(***************************************************************************)
FeedsReloaded == \E feeds \in ReloadedFeedLists : feedsReloaded(feeds)

NextFeeds ==
    \/ FeedClick
    \/ handleAllFeedsClick
    \/ TagClick
    \/ DeleteFeed
    \/ FeedsReloaded
    \/ feedsReloadFailed
    \/ FetchResolvedSinglePage
    \/ FetchRejected

SpecFeeds == Init /\ [][NextFeeds]_vars

\* C27: every id of the active feed filter is the id of a feed of the store.
C27_ActiveFeedsAreKnown ==
    SeqToSet(activeFeedFilterIds) \subseteq SeqToSet(dbFeedSources)

\* C29: when the default summary and tag prompts hold {text}, so do the
\* current summary and tag prompts, whatever saves and resets were made.
C29_CurrentPromptsKeepText ==
    Includes(defaultPrompts.summary, "{text}") /\ Includes(defaultPrompts.tag, "{text}")
    => Includes(currentPrompts.summary, "{text}") /\ Includes(currentPrompts.tag, "{text}")

\* An accepted save stored a custom summary prompt and, for the empty tag
\* box, the default tag prompt.
C29_Witness ==
    /\ ev = "savePrompts"
    /\ currentPrompts.summary = Str(<<"a", "{text}">>)
    /\ currentPrompts.summary # defaultPrompts.summary
    /\ currentPrompts.tag = defaultPrompts.tag
    /\ Includes(defaultPrompts.tag, "{text}")

(***************************************************************************)
(* SpecSaves: the four forms of the Setup tab are submitted on the loaded  *)
(* page, and the PUTs succeed or fail.                                     *)
(***************************************************************************)
SaveContentPreferencesSome ==
    \E app \in {<<"x">>, <<"5", "0">>} : \E mwc \in {<<"0">>} :
        saveContentPreferences(app, mwc)

SaveAiModels ==
    \E sm \in ModelSelectValues : \E cm \in ModelSelectValues : saveAiModels(sm, cm, <<>>)

NextSaves ==
    \/ SaveContentPreferencesSome
    \/ SaveAiPromptsCustom
    \/ SaveInterval
    \/ SaveAiModels
    \/ ConfigSaveSettled
    \/ FetchResolvedSinglePage
    \/ FetchRejected

SpecSaves == Init /\ [][NextSaves]_vars

\* The settings the State Store holds.
LocalSettings ==
    [articles_per_page |-> articlesPerPage,
     minimum_word_count |-> minimumWordCount,
     rss_fetch_interval_minutes |-> globalRssFetchInterval,
     summary_prompt |-> currentPrompts.summary,
     chat_prompt |-> currentPrompts.chat,
     tag_generation_prompt |-> currentPrompts.tag,
     summary_model_name |-> currentModels.summary,
     chat_model_name |-> currentModels.chat,
     tag_model_name |-> currentModels.tag]

\* C30: an accepted save of content preferences, prompts, interval or models
\* leaves the store holding the very settings of the PUT it has just issued,
\* while that PUT is unresolved; and a PUT that fails changes none of them.
C30_SavedLocallyBeforePut ==
    [][/\ ev' \in {"contentPrefs", "savePrompts", "saveInterval", "saveModels"}
          => /\ Len(configInflight') = Len(configInflight) + 1
             /\ Last(configInflight') = LocalSettings'
       /\ ev' = "configSaveFailed" => LocalSettings' = LocalSettings]_vars

\* The one PUT that carried model m1 and the interval 5 has failed, and the
\* store holds them.
C30_Witness ==
    /\ ev = "configSaveFailed"
    /\ configInflight = <<>>
    /\ currentModels.summary = Str(<<"m1">>)
    /\ globalRssFetchInterval = 5
    /\ articlesPerPage = 50
    /\ currentPrompts.summary = Str(<<"a", "{text}">>)

====
